---- MODULE Spec2Model ----
(***************************************************************************)
(* Model of the extensible bitmask permission engine of chukfi/backend     *)
(* (src/src/lib/permissions/permission.go) together with the               *)
(* custom_permissions table it persists to (src/unnamed/part_003).         *)
(*                                                                         *)
(* Encoding.  A Permission is a uint64.  It is modelled as the set of the  *)
(* positions (0..63) of its set bits, so that bit 63 is representable:     *)
(*   a & b   is  a \cap b          a | b  is  a \cup b                     *)
(*   1 << n  is  {n} for n < 64 and {} (zero) for n >= 64, as Go shifts    *)
(*   a == b  is  a = b             a < b  is  PermLess(a, b)               *)
(* A Go map is a function whose DOMAIN is the set of its keys.             *)
(***************************************************************************)
EXTENDS Integers, Sequences, FiniteSets

\* ------------------------------------------------------------------ bounds

\* Successful UnregisterPermission calls explored in one run.
MaxUnregisters == 1

\* The longest name singularize is applied to.
MaxNameLen == 4

\* ------------------------------------------------------- program constants

\* const maxBuiltinBit = iota, after six 1 << iota constants.
maxBuiltinBit == 6

\* Width of Permission (uint64); the literal of `registry.nextBit >= 64`.
PermissionWidth == 64

\* ------------------------------------------------------------ Permission

\* Permission(1 << n) on a uint64.
Bit(n) ==
    IF n < PermissionWidth THEN {n} ELSE {}

\* a & b on Permission.
PermAnd(a, b) ==
    a \cap b

\* a < b on Permission (unsigned comparison): the highest differing bit is b's.
PermLess(a, b) ==
    \E hi \in b \ a : \A lo \in a \ b : lo < hi

ViewDashboard == Bit(0)
ViewModels == Bit(1)
ViewUsers == Bit(2)
ManageUsers == Bit(3)
ManageModels == Bit(4)
Administrator == Bit(5)

\* The builtins map of init(): Permission -> name.
builtins ==
    [p \in {ViewDashboard, ViewModels, ViewUsers, ManageUsers, ManageModels, Administrator} |->
        CASE p = ViewDashboard -> "ViewDashboard"
          [] p = ViewModels -> "ViewModels"
          [] p = ViewUsers -> "ViewUsers"
          [] p = ManageUsers -> "ManageUsers"
          [] p = ManageModels -> "ManageModels"
          [] p = Administrator -> "Administrator"]

BuiltinNames == {builtins[p] : p \in DOMAIN builtins}

\* Names the callers pass for custom permissions.
CustomNames == {"ViewPosts", "ManageReports", "NewCap"}

Names == BuiltinNames \cup CustomNames

\* Names RegisterPermission is called with: the custom names, and a built-in one.
RegisteredNames == CustomNames \cup {"Administrator"}

\* ------------------------------------------------------------------ maps

\* MapPut that forgets the other keys.
MapPut_Alone(m, k, v) ==
    [x \in {k} |-> v]

\* m[k] = v on a Go map.
MapPut(m, k, v) ==
    [x \in (DOMAIN m) \cup {k} |-> IF x = k THEN v ELSE m[x]]

\* delete(m, k) on a Go map.
MapDelete(m, k) ==
    [x \in (DOMAIN m) \ {k} |-> m[x]]

\* --------------------------------------------- custom_permissions table

\* A row of CustomPermission: Name and BitPosition each carry a unique index,
\* DeletedAt makes deletion soft.  Deleted is "DeletedAt is not NULL".
\* (ID, Description and the timestamps are never read by the engine.)
Row(name, bitPos, deleted) ==
    [Name |-> name, BitPosition |-> bitPos, Deleted |-> deleted]

\* The unique indexes span every row, soft-deleted ones included.
UniqueIndexes(rows) ==
    \A r, s \in rows :
        (r.Name = s.Name \/ r.BitPosition = s.BitPosition) => r = s

\* Rows a query sees: gorm adds `deleted_at IS NULL`.
LiveRows(rows) ==
    {r \in rows : ~r.Deleted}

RECURSIVE OrderByBitPosition(_)
\* Order("bit_position asc") over a set of rows.
OrderByBitPosition(rows) ==
    IF rows = {} THEN <<>>
    ELSE LET first == CHOOSE r \in rows : \A s \in rows : r.BitPosition <= s.BitPosition
         IN  <<first>> \o OrderByBitPosition(rows \ {first})

\* db.Order("bit_position asc").Find(&customPerms)
DbFind(rows) ==
    OrderByBitPosition(LiveRows(rows))

\* Whether db.Create(&customPerm) passes the unique indexes.
DbCreateAllowed(rows, name, bitPos) ==
    \A r \in rows : r.Name # name /\ r.BitPosition # bitPos

\* db.Create(&customPerm)
DbCreate(rows, name, bitPos) ==
    rows \cup {Row(name, bitPos, FALSE)}

\* db.Where("name = ?", name).Delete(&CustomPermission{}): a soft delete.
DbDelete(rows, name) ==
    {IF r.Name = name /\ ~r.Deleted THEN Row(r.Name, r.BitPosition, TRUE) ELSE r : r \in rows}

\* Rows that earlier runs of the program may have left in the table.
SeedRows ==
    {Row("ViewPosts", 6, FALSE), Row("ManageReports", 7, FALSE),
     Row("ViewPosts", 62, FALSE), Row("ManageReports", 63, FALSE)}

\* The tables the process may find when it starts.
SeedTables ==
    {t \in SUBSET SeedRows : UniqueIndexes(t)}

\* ------------------------------------------------------------------ state

VARIABLES
    nameToPermission,   \* registry.nameToPermission: name -> Permission
    permissionToName,   \* registry.permissionToName: Permission -> name
    nextBit,            \* registry.nextBit
    db,                 \* registry.db # nil
    customPermissions,  \* the rows of the custom_permissions table
    lastCall,           \* the call that returned last: its arguments and results
    lastAllocBit,       \* highest bit position a RegisterPermission of a new name returned
    issued,             \* <<name, Permission>> RegisterPermission returned, until unregistered
    unregisters,        \* successful UnregisterPermission calls so far
    reloaded,           \* the last two calls that returned were both successful loads
    hasCall,            \* the last HasPermission call: its arguments and result
    registryMu,         \* registry.mu: who holds the read/write lock and who waits to write
    callers,            \* the goroutines calling package permissions: operation and position
    stable,             \* the guarded fields of the registry when a writer last released the lock
    lastRead,           \* the last read of the registry under the lock: what it saw
    registry,           \* schemaregistry.registry: table name -> SchemaMetadata
    aliases,            \* schemaregistry.aliases: singular name -> table name
    registered,         \* names of the model types RegisterSchema was called with
    lastRegistered,     \* table name -> name of the type whose registration wrote the entry last
    lastAliased,        \* singular name -> name of the type whose registration wrote the alias last
    schemaCall,         \* the last call of the schema registry: its arguments and results
    mu,                 \* schemaregistry.mu: who holds the read/write lock and who waits to write
    goroutines          \* the goroutines calling the schema registry: operation and position

\* The state of package schemaregistry, and what is recorded about its calls.
lockVars == <<mu, goroutines>>

schemaVars == <<registry, aliases, registered, lastRegistered, lastAliased, schemaCall, lockVars>>

\* The lock of package permissions, its callers and what is recorded about them.
raceVars == <<registryMu, callers, stable, lastRead>>

vars ==
    <<nameToPermission, permissionToName, nextBit, db, customPermissions,
      lastCall, lastAllocBit, issued, unregisters, reloaded, hasCall, raceVars, schemaVars>>

\* The three fields of PermissionRegistry that the mutex guards, as one value.
Registry ==
    [nameToPermission |-> nameToPermission,
     permissionToName |-> permissionToName,
     nextBit |-> nextBit]

Call(op, name, perm, err) ==
    [op |-> op, name |-> name, perm |-> perm, err |-> err]

NoCall == Call("none", "", {}, "nil")

NoHasCall == [userPermissions |-> {}, requiredPermissions |-> {}, result |-> "none"]

\* make(map[...]...): a map without keys.
EmptyMap == [k \in {} |-> k]

NoSchemaCall == [op |-> "none"]

\* The goroutines that call the schema registry concurrently.
Goroutines == {"g1", "g2"}

NoGoroutine == "none"

\* A goroutine outside every operation of the registry.
Idle == [op |-> "idle", at |-> "idle", model |-> "", todo |-> {}]

\* var mu sync.RWMutex, unlocked
Unlocked == [readers |-> [g \in Goroutines |-> 0], writer |-> NoGoroutine, pending |-> {}]

\* registry.mu unlocked, no goroutine inside package permissions, nothing read yet.
InitCallers ==
    /\ registryMu = Unlocked
    /\ callers = [g \in Goroutines |-> [op |-> "idle", at |-> "idle", name |-> "", perm |-> {}]]
    /\ stable = Registry
    /\ lastRead = [op |-> "none"]

\* var registry = make(map[string]SchemaMetadata); aliases = make(map[string]string)
InitSchemaRegistry ==
    /\ registry = EmptyMap
    /\ aliases = EmptyMap
    /\ registered = {}
    /\ lastRegistered = EmptyMap
    /\ lastAliased = EmptyMap
    /\ schemaCall = NoSchemaCall
    /\ mu = Unlocked
    /\ goroutines = [g \in Goroutines |-> Idle]

\* InitRegistry with the cursor started one past the first free bit.
InitRegistry_CursorPastFirst ==
    /\ permissionToName = builtins
    /\ nameToPermission = [n \in BuiltinNames |-> CHOOSE p \in DOMAIN builtins : builtins[p] = n]
    /\ nextBit = maxBuiltinBit + 1
    /\ db = FALSE

\* var registry = &PermissionRegistry{...} followed by init().
InitRegistry ==
    /\ permissionToName = builtins
    /\ nameToPermission = [n \in BuiltinNames |-> CHOOSE p \in DOMAIN builtins : builtins[p] = n]
    /\ nextBit = maxBuiltinBit
    /\ db = FALSE

Init ==
    /\ InitRegistry
    /\ customPermissions \in SeedTables
    /\ lastCall = NoCall
    /\ lastAllocBit = -1
    /\ issued = {}
    /\ unregisters = 0
    /\ reloaded = FALSE
    /\ hasCall = NoHasCall
    /\ InitCallers
    /\ InitSchemaRegistry

\* ------------------------------------------------- LoadCustomPermissions

\* AdvanceNextBit that counts the rows instead of following their positions.
AdvanceNextBit_CountsRows(nb, bitPos) ==
    nb + 1

\* AdvanceNextBit without the comparison: the cursor follows the row.
AdvanceNextBit_Unconditional(nb, bitPos) ==
    bitPos + 1

\* `if cp.BitPosition >= registry.nextBit { registry.nextBit = cp.BitPosition + 1 }`
AdvanceNextBit(nb, bitPos) ==
    IF bitPos >= nb THEN bitPos + 1 ELSE nb

\* The body of the loop over customPerms, for one row.
LoadRow(reg, cp) ==
    LET perm == Bit(cp.BitPosition)
    IN  [nameToPermission |-> MapPut(reg.nameToPermission, cp.Name, perm),
         permissionToName |-> MapPut(reg.permissionToName, perm, cp.Name),
         nextBit |-> AdvanceNextBit(reg.nextBit, cp.BitPosition)]

RECURSIVE LoadRows(_, _)
\* `for _, cp := range customPerms`, in slice order.
LoadRows(reg, customPerms) ==
    IF customPerms = <<>> THEN reg
    ELSE LoadRows(LoadRow(reg, Head(customPerms)), Tail(customPerms))

\* The registry after LoadCustomPermissions; findOk is whether Find returned no error.
LoadedRegistry(reg, rows, findOk) ==
    IF findOk THEN LoadRows(reg, DbFind(rows)) ELSE reg

SetRegistry(reg) ==
    /\ nameToPermission' = reg.nameToPermission
    /\ permissionToName' = reg.permissionToName
    /\ nextBit' = reg.nextBit

LoadCustomPermissions ==
    \E findOk \in BOOLEAN :
        /\ SetRegistry(LoadedRegistry(Registry, customPermissions, findOk))
        /\ lastCall' = Call("LoadCustomPermissions", "", {}, IF findOk THEN "nil" ELSE "db")
        /\ reloaded' = (findOk /\ lastCall.err = "nil"
                            /\ lastCall.op \in {"LoadCustomPermissions", "InitPermissions"})
        /\ UNCHANGED <<db, customPermissions, lastAllocBit, issued, unregisters, hasCall,
                       raceVars, schemaVars>>

\* InitPermissions: attach the handle, AutoMigrate (creates the table, touches no
\* row, its error is dropped), then LoadCustomPermissions.
InitPermissions ==
    \E findOk \in BOOLEAN :
        /\ db' = TRUE
        /\ SetRegistry(LoadedRegistry(Registry, customPermissions, findOk))
        /\ lastCall' = Call("InitPermissions", "", {}, IF findOk THEN "nil" ELSE "db")
        /\ reloaded' = (findOk /\ lastCall.err = "nil"
                            /\ lastCall.op \in {"LoadCustomPermissions", "InitPermissions"})
        /\ UNCHANGED <<customPermissions, lastAllocBit, issued, unregisters, hasCall,
                       raceVars, schemaVars>>

\* ---------------------------------------------------- RegisterPermission

\* NextBitExhausted with the comparison off by one.
NextBitExhausted_OffByOne(nb) ==
    nb > PermissionWidth

\* `if registry.nextBit >= 64`
NextBitExhausted(nb) ==
    nb >= PermissionWidth

\* IncrementNextBit with the increment forgotten.
IncrementNextBit_Forgotten(nb) ==
    nb

\* `registry.nextBit++`
IncrementNextBit(nb) ==
    nb + 1

\* Lines 112-117: take the next bit and insert the pair into both maps.
Allocate(reg, name) ==
    LET perm == Bit(reg.nextBit)
    IN  [nameToPermission |-> MapPut(reg.nameToPermission, name, perm),
         permissionToName |-> MapPut(reg.permissionToName, perm, name),
         nextBit |-> IncrementNextBit(reg.nextBit)]

\* Rollback that forgets to move the cursor back.
Rollback_KeepsCursor(reg, name, perm) ==
    [nameToPermission |-> MapDelete(reg.nameToPermission, name),
     permissionToName |-> MapDelete(reg.permissionToName, perm),
     nextBit |-> reg.nextBit]

\* Lines 125-127: undo Allocate after db.Create returned an error.
Rollback(reg, name, perm) ==
    [nameToPermission |-> MapDelete(reg.nameToPermission, name),
     permissionToName |-> MapDelete(reg.permissionToName, perm),
     nextBit |-> reg.nextBit - 1]

\* The record of what RegisterPermission returned for the custom names: the
\* first Permission returned for a name since it was last unregistered.
Issue(log, name, perm) ==
    IF name \in CustomNames /\ ~\E i \in log : i[1] = name
    THEN log \cup {<<name, perm>>}
    ELSE log

\* RegisterPermission(name); ioOk is whether the storage round trip itself works.
RegisterPermission(name) ==
    /\ reloaded' = FALSE
    /\ UNCHANGED <<raceVars, schemaVars>>
    /\ \E ioOk \in BOOLEAN :
        IF name \in DOMAIN nameToPermission
        THEN /\ lastCall' = Call("RegisterPermission", name, nameToPermission[name], "nil")
             /\ issued' = Issue(issued, name, nameToPermission[name])
             /\ UNCHANGED <<nameToPermission, permissionToName, nextBit, db,
                            customPermissions, lastAllocBit, unregisters, hasCall>>
        ELSE IF NextBitExhausted(nextBit)
        THEN /\ lastCall' = Call("RegisterPermission", name, {}, "ErrMaxPermissionsReached")
             /\ UNCHANGED <<nameToPermission, permissionToName, nextBit, db,
                            customPermissions, lastAllocBit, issued, unregisters, hasCall>>
        ELSE LET bitPos == nextBit
                 perm == Bit(bitPos)
                 allocated == Allocate(Registry, name)
                 created == ioOk /\ DbCreateAllowed(customPermissions, name, bitPos)
             IN  IF db /\ ~created
                 THEN /\ SetRegistry(Rollback(allocated, name, perm))
                      /\ lastCall' = Call("RegisterPermission", name, {}, "db")
                      /\ UNCHANGED <<db, customPermissions, lastAllocBit, issued,
                                     unregisters, hasCall>>
                 ELSE /\ SetRegistry(allocated)
                      /\ customPermissions' =
                            IF db THEN DbCreate(customPermissions, name, bitPos)
                            ELSE customPermissions
                      /\ lastCall' = Call("RegisterPermission", name, perm, "nil")
                      /\ lastAllocBit' = IF bitPos > lastAllocBit THEN bitPos ELSE lastAllocBit
                      /\ issued' = Issue(issued, name, perm)
                      /\ UNCHANGED <<db, unregisters, hasCall>>

\* -------------------------------------------------- UnregisterPermission

\* IsBuiltinPermission with the built-in range one bit short.
IsBuiltinPermission_OneShort(p2n, perm) ==
    \E builtinPerm \in DOMAIN p2n :
        builtinPerm = perm /\ PermLess(builtinPerm, Bit(maxBuiltinBit - 1))

\* The loop of lines 145-149: perm is a key of permissionToName below 1 << maxBuiltinBit.
IsBuiltinPermission(p2n, perm) ==
    \E builtinPerm \in DOMAIN p2n :
        builtinPerm = perm /\ PermLess(builtinPerm, Bit(maxBuiltinBit))

\* Lines 157-158: remove the pair from both maps.
Forget(reg, name, perm) ==
    [nameToPermission |-> MapDelete(reg.nameToPermission, name),
     permissionToName |-> MapDelete(reg.permissionToName, perm),
     nextBit |-> reg.nextBit]

\* AfterFailedDelete with the maps cleared before the durable delete is tried.
AfterFailedDelete_MapsCleared(reg, name, perm) ==
    [nameToPermission |-> MapDelete(reg.nameToPermission, name),
     permissionToName |-> MapDelete(reg.permissionToName, perm),
     nextBit |-> reg.nextBit]

\* The registry UnregisterPermission leaves when the durable delete failed:
\* lines 151-155 return before lines 157-158 run.
AfterFailedDelete(reg, name, perm) ==
    reg

\* UnregisterPermission(name); ioOk is whether the storage round trip itself works.
UnregisterPermission(name) ==
    /\ reloaded' = FALSE
    /\ UNCHANGED <<raceVars, schemaVars>>
    /\ \E ioOk \in BOOLEAN :
        IF name \notin DOMAIN nameToPermission
        THEN /\ lastCall' = Call("UnregisterPermission", name, {}, "ErrPermissionNotFound")
             /\ UNCHANGED <<nameToPermission, permissionToName, nextBit, db,
                            customPermissions, lastAllocBit, issued, unregisters, hasCall>>
        ELSE LET perm == nameToPermission[name]
             IN  IF IsBuiltinPermission(permissionToName, perm)
                 THEN /\ lastCall' = Call("UnregisterPermission", name, {}, "builtin")
                      /\ UNCHANGED <<nameToPermission, permissionToName, nextBit, db,
                                     customPermissions, lastAllocBit, issued, unregisters,
                                     hasCall>>
                 ELSE IF db /\ ~ioOk
                 THEN /\ SetRegistry(AfterFailedDelete(Registry, name, perm))
                      /\ lastCall' = Call("UnregisterPermission", name, {}, "db")
                      /\ UNCHANGED <<db, customPermissions, lastAllocBit, issued,
                                     unregisters, hasCall>>
                 ELSE /\ unregisters < MaxUnregisters
                      /\ customPermissions' =
                            IF db THEN DbDelete(customPermissions, name)
                            ELSE customPermissions
                      /\ SetRegistry(Forget(Registry, name, perm))
                      /\ lastCall' = Call("UnregisterPermission", name, {}, "nil")
                      /\ issued' = {i \in issued : i[1] # name}
                      /\ unregisters' = unregisters + 1
                      /\ UNCHANGED <<db, lastAllocBit, hasCall>>

\* ---------------------------------------------------------- HasPermission

\* HasPermission without the Administrator override.
HasPermission_NoOverride(userPermissions, requiredPermissions) ==
    PermAnd(userPermissions, requiredPermissions) = requiredPermissions

\* HasPermission that accepts any common bit.
HasPermission_AnyBit(userPermissions, requiredPermissions) ==
    IF PermAnd(userPermissions, Administrator) = Administrator
    THEN TRUE
    ELSE PermAnd(userPermissions, requiredPermissions) # {}

HasPermission(userPermissions, requiredPermissions) ==
    IF PermAnd(userPermissions, Administrator) = Administrator
    THEN TRUE
    ELSE PermAnd(userPermissions, requiredPermissions) = requiredPermissions

\* Bits of the masks HasPermission is called with: ViewModels, Administrator,
\* the first custom bit and the top bit of the word.
CheckedBits == {1, 5, 6, 63}

CheckedMasks == SUBSET CheckedBits

HasPermissionCall(userPermissions, requiredPermissions) ==
    /\ hasCall' = [userPermissions |-> userPermissions,
                   requiredPermissions |-> requiredPermissions,
                   result |-> IF HasPermission(userPermissions, requiredPermissions)
                              THEN "true" ELSE "false"]
    /\ UNCHANGED <<nameToPermission, permissionToName, nextBit, db, customPermissions,
                   lastCall, lastAllocBit, issued, unregisters, reloaded, raceVars, schemaVars>>

\* ----------------------------------------------------------------- strings

(***************************************************************************)
(* Package schemaregistry (src/src/lib/schemaregistry/registry.go).        *)
(*                                                                         *)
(* A Go string that the code takes apart (a type, field or table name, a   *)
(* struct tag) is modelled as the sequence of its characters, so that      *)
(* strings.ToLower, HasSuffix, Contains, Split and slicing are computed.   *)
(***************************************************************************)

UpperCase == <<"A", "B", "C", "D", "E", "F", "G", "H", "I", "J", "K", "L", "M", "N", "O", "P", "Q", "R", "S", "T", "U", "V", "W", "X", "Y", "Z">>

LowerCase == <<"a", "b", "c", "d", "e", "f", "g", "h", "i", "j", "k", "l", "m", "n", "o", "p", "q", "r", "s", "t", "u", "v", "w", "x", "y", "z">>

IsUpper(c) == \E i \in 1 .. Len(UpperCase) : UpperCase[i] = c

IsLower(c) == \E i \in 1 .. Len(LowerCase) : LowerCase[i] = c

LowerChar(c) ==
    IF IsUpper(c) THEN LowerCase[CHOOSE i \in 1 .. Len(UpperCase) : UpperCase[i] = c] ELSE c

\* strings.ToLower(s)
ToLower(s) ==
    [i \in 1 .. Len(s) |-> LowerChar(s[i])]

\* strings.HasSuffix(s, suffix)
HasSuffix(s, suffix) ==
    /\ Len(s) >= Len(suffix)
    /\ SubSeq(s, Len(s) - Len(suffix) + 1, Len(s)) = suffix

\* strings.Contains(s, substr)
Contains(s, substr) ==
    \E i \in 1 .. (Len(s) - Len(substr) + 1) : SubSeq(s, i, i + Len(substr) - 1) = substr

\* s[:len(s)-n]
DropLast(s, n) ==
    SubSeq(s, 1, Len(s) - n)

\* strings.Split(s, ",")[0]
FirstPart(s) ==
    IF \E i \in 1 .. Len(s) : s[i] = ","
    THEN SubSeq(s, 1, (CHOOSE i \in 1 .. Len(s) : s[i] = "," /\ \A j \in 1 .. (i - 1) : s[j] # ",") - 1)
    ELSE s

\* ---------------------------------------------------------------- singularize

\* singularize with the rule for a final "s" tried before the rule for "-es".
singularize_FinalSFirst(name) ==
    IF Len(name) = 0 THEN name
    ELSE IF HasSuffix(name, <<"i", "e", "s">>) THEN DropLast(name, 3) \o <<"y">>
    ELSE IF HasSuffix(name, <<"s">>) /\ ~HasSuffix(name, <<"s", "s">>) THEN DropLast(name, 1)
    ELSE name

singularize(name) ==
    IF Len(name) = 0 THEN name
    ELSE IF HasSuffix(name, <<"i", "e", "s">>) THEN DropLast(name, 3) \o <<"y">>
    ELSE IF \/ HasSuffix(name, <<"s", "e", "s">>) \/ HasSuffix(name, <<"x", "e", "s">>) \/ HasSuffix(name, <<"z", "e", "s">>)
            \/ HasSuffix(name, <<"c", "h", "e", "s">>) \/ HasSuffix(name, <<"s", "h", "e", "s">>)
         THEN DropLast(name, 2)
    ELSE IF HasSuffix(name, <<"s">>) /\ ~HasSuffix(name, <<"s", "s">>) THEN DropLast(name, 1)
    ELSE name

\* ------------------------------------------- schema.NamingStrategy{}.TableName

(***************************************************************************)
(* gorm's naming strategy is a library outside the repository.  The spec   *)
(* calls its result the derived "pluralized" form of a name; it is         *)
(* modelled as snake case followed by the regular English plural.          *)
(***************************************************************************)

RECURSIVE SnakeFrom(_, _)
\* Lower-case s from position i on, with "_" before the capital that starts a word.
SnakeFrom(s, i) ==
    IF i > Len(s) THEN <<>>
    ELSE LET wordStart ==
                 /\ i > 1
                 /\ IsUpper(s[i])
                 /\ \/ IsLower(s[i - 1])
                    \/ i < Len(s) /\ IsUpper(s[i - 1]) /\ IsLower(s[i + 1])
         IN  (IF wordStart THEN <<"_">> ELSE <<>>) \o <<LowerChar(s[i])>> \o SnakeFrom(s, i + 1)

SnakeCase(s) == SnakeFrom(s, 1)

IsVowel(c) == c \in {"a", "e", "i", "o", "u"}

Pluralize(s) ==
    IF Len(s) = 0 THEN s
    ELSE IF HasSuffix(s, <<"s", "t", "a", "t", "u", "s">>) \/ HasSuffix(s, <<"s", "s">>) \/ HasSuffix(s, <<"x">>)
            \/ HasSuffix(s, <<"c", "h">>) \/ HasSuffix(s, <<"s", "h">>)
         THEN s \o <<"e", "s">>
    ELSE IF HasSuffix(s, <<"s">>) THEN s
    ELSE IF HasSuffix(s, <<"y">>) /\ Len(s) > 1 /\ ~IsVowel(s[Len(s) - 1])
         THEN DropLast(s, 1) \o <<"i", "e", "s">>
    ELSE s \o <<"s">>

NamingStrategyTableName(name) ==
    Pluralize(SnakeCase(name))

\* ---------------------------------------------------------------- model types

(***************************************************************************)
(* What reflect shows of a struct type: its name, the result of its        *)
(* TableName() method if it has one, and its fields in declaration order.  *)
(* A field has a name, is Anonymous when embedded, has the Kind of its     *)
(* type (and of the pointed-to type), the fields of an embedded struct,    *)
(* the printed type and the gorm and json struct tags.                     *)
(***************************************************************************)

Field(name, type, gormTag, jsonTag) ==
    [Name |-> name, Anonymous |-> FALSE, Kind |-> "other", ElemKind |-> "other",
     Fields |-> <<>>, Type |-> type, GormTag |-> gormTag, JSONTag |-> jsonTag]

Embedded(name, kind, elemKind, fields) ==
    [Name |-> name, Anonymous |-> TRUE, Kind |-> kind, ElemKind |-> elemKind,
     Fields |-> fields, Type |-> "struct", GormTag |-> <<>>, JSONTag |-> <<>>]

Struct(name, fields) ==
    [Name |-> name, Tabler |-> FALSE, TableName |-> <<>>, Fields |-> fields]

StructWithTableName(name, tableName, fields) ==
    [Name |-> name, Tabler |-> TRUE, TableName |-> tableName, Fields |-> fields]

\* type AdminOnly struct { adminOnly string `gorm:"-:all"` }
AdminOnlyFields ==
    <<Field(<<"a", "d", "m", "i", "n", "O", "n", "l", "y">>, "string", <<"-", ":", "a", "l", "l">>, <<>>)>>

\* type Hidden struct { Hidden string `gorm:"-:all"` }
HiddenFields ==
    <<Field(<<"H", "i", "d", "d", "e", "n">>, "string", <<"-", ":", "a", "l", "l">>, <<>>)>>

\* type BaseModel struct { ID; CreatedAt; UpdatedAt; DeletedAt }
BaseModelFields ==
    <<Field(<<"I", "D">>, "uuid.UUID", <<"t", "y", "p", "e", ":", "c", "h", "a", "r", "(", "3", "6", ")", ";", "p", "r", "i", "m", "a", "r", "y", "K", "e", "y">>, <<>>),
      Field(<<"C", "r", "e", "a", "t", "e", "d", "A", "t">>, "time.Time", <<>>, <<>>),
      Field(<<"U", "p", "d", "a", "t", "e", "d", "A", "t">>, "time.Time", <<>>, <<>>),
      Field(<<"D", "e", "l", "e", "t", "e", "d", "A", "t">>, "gorm.DeletedAt", <<"i", "n", "d", "e", "x">>, <<>>)>>

BaseModel == Embedded(<<"B", "a", "s", "e", "M", "o", "d", "e", "l">>, "struct", "struct", BaseModelFields)

AdminOnly == Embedded(<<"A", "d", "m", "i", "n", "O", "n", "l", "y">>, "struct", "struct", AdminOnlyFields)

Hidden == Embedded(<<"H", "i", "d", "d", "e", "n">>, "struct", "struct", HiddenFields)

\* schema.User: restricted by the embedded marker
User ==
    Struct(<<"U", "s", "e", "r">>,
           <<BaseModel, AdminOnly,
             Field(<<"F", "u", "l", "l", "n", "a", "m", "e">>, "string", <<"t", "y", "p", "e", ":", "v", "a", "r", "c", "h", "a", "r", "(", "1", "0", "0", ")", ";", "n", "o", "t", " ", "n", "u", "l", "l">>, <<>>),
             Field(<<"E", "m", "a", "i", "l">>, "string", <<"t", "y", "p", "e", ":", "v", "a", "r", "c", "h", "a", "r", "(", "1", "0", "0", ")", ";", "u", "n", "i", "q", "u", "e", "I", "n", "d", "e", "x", ";", "n", "o", "t", " ", "n", "u", "l", "l">>, <<>>),
             Field(<<"P", "a", "s", "s", "w", "o", "r", "d">>, "string", <<"t", "y", "p", "e", ":", "v", "a", "r", "c", "h", "a", "r", "(", "2", "5", "5", ")", ";", "n", "o", "t", " ", "n", "u", "l", "l">>, <<>>),
             Field(<<"P", "e", "r", "m", "i", "s", "s", "i", "o", "n", "s">>, "uint64", <<"n", "o", "t", " ", "n", "u", "l", "l", ";", "d", "e", "f", "a", "u", "l", "t", ":", "1", ";">>, <<>>)>>)

\* schema.UserToken: concealed by the embedded marker
UserToken ==
    Struct(<<"U", "s", "e", "r", "T", "o", "k", "e", "n">>,
           <<BaseModel, Hidden,
             Field(<<"U", "s", "e", "r", "I", "D">>, "uuid.UUID", <<"t", "y", "p", "e", ":", "c", "h", "a", "r", "(", "3", "6", ")", ";", "n", "o", "t", " ", "n", "u", "l", "l", ";", "i", "n", "d", "e", "x">>, <<>>),
             Field(<<"T", "o", "k", "e", "n">>, "string", <<"t", "y", "p", "e", ":", "c", "h", "a", "r", "(", "6", "4", ")", ";", "n", "o", "t", " ", "n", "u", "l", "l", ";", "u", "n", "i", "q", "u", "e", "I", "n", "d", "e", "x">>, <<>>),
             Field(<<"E", "x", "p", "i", "r", "e", "s", "A", "t">>, "int64", <<"n", "o", "t", " ", "n", "u", "l", "l", ";", "i", "n", "d", "e", "x">>, <<>>)>>)

\* The documented Post model: three required fields and an optional one.
Post ==
    Struct(<<"P", "o", "s", "t">>,
           <<BaseModel,
             Field(<<"T", "y", "p", "e">>, "string", <<"t", "y", "p", "e", ":", "v", "a", "r", "c", "h", "a", "r", "(", "1", "0", "0", ")", ";", "n", "o", "t", " ", "n", "u", "l", "l">>, <<>>),
             Field(<<"B", "o", "d", "y">>, "string", <<"t", "y", "p", "e", ":", "t", "e", "x", "t", ";", "n", "o", "t", " ", "n", "u", "l", "l">>, <<>>),
             Field(<<"T", "i", "t", "l", "e">>, "string", <<"t", "y", "p", "e", ":", "v", "a", "r", "c", "h", "a", "r", "(", "2", "5", "5", ")", ";", "n", "o", "t", " ", "n", "u", "l", "l", ";", "i", "n", "d", "e", "x">>, <<>>),
             Field(<<"A", "u", "t", "h", "o", "r", "I", "D">>, "string", <<"t", "y", "p", "e", ":", "c", "h", "a", "r", "(", "3", "6", ")", ";", "i", "n", "d", "e", "x">>, <<>>)>>)

\* A second view of the users table: json names, a required primary key, no marker.
UserView ==
    StructWithTableName(<<"U", "s", "e", "r", "V", "i", "e", "w">>, <<"u", "s", "e", "r", "s">>,
           <<Field(<<"I", "D">>, "string", <<"p", "r", "i", "m", "a", "r", "y", "K", "e", "y", ";", "n", "o", "t", " ", "n", "u", "l", "l">>, <<"i", "d">>),
             Field(<<"F", "u", "l", "l", "n", "a", "m", "e">>, "string", <<>>, <<"f", "u", "l", "l", "n", "a", "m", "e", ",", "o", "m", "i", "t", "e", "m", "p", "t", "y">>),
             Field(<<"E", "m", "a", "i", "l">>, "string", <<"n", "o", "t", " ", "n", "u", "l", "l">>, <<"e", "m", "a", "i", "l">>),
             Field(<<"S", "e", "c", "r", "e", "t">>, "string", <<"-">>, <<>>),
             Field(<<"N", "o", "t", "e">>, "string", <<>>, <<",", "o", "m", "i", "t", "e", "m", "p", "t", "y">>)>>)

\* A model of the table "post", restricted by a marker field of its own.
PostRow ==
    StructWithTableName(<<"P", "o", "s", "t", "R", "o", "w">>, <<"p", "o", "s", "t">>,
           <<Field(<<"a", "d", "m", "i", "n", "O", "n", "l", "y">>, "string", <<"-", ":", "a", "l", "l">>, <<>>),
             Field(<<"C", "o", "d", "e">>, "int", <<"p", "r", "i", "m", "a", "r", "y", "k", "e", "y">>, <<>>),
             Field(<<"L", "a", "b", "e", "l">>, "string", <<"n", "o", "t", " ", "n", "u", "l", "l">>, <<>>)>>)

\* A model whose table name is derived: "boxes", with the singular "box".
Box ==
    Struct(<<"B", "o", "x">>,
           <<BaseModel,
             Field(<<"L", "a", "b", "e", "l">>, "string", <<"n", "o", "t", " ", "n", "u", "l", "l">>, <<>>)>>)

\* A model of the table "boxs", whose singular is "box" as well; the base is embedded by pointer.
Crate ==
    StructWithTableName(<<"C", "r", "a", "t", "e">>, <<"b", "o", "x", "s">>,
           <<Embedded(<<"B", "a", "s", "e", "M", "o", "d", "e", "l">>, "ptr", "struct", BaseModelFields),
             Embedded(<<"L", "a", "b", "e", "l">>, "other", "other", <<>>),
             Field(<<"W", "e", "i", "g", "h", "t">>, "int", <<"n", "o", "t", " ", "n", "u", "l", "l">>, <<>>)>>)

\* A concealed model of the table "posts", with a marker field of its own.
PostDraft ==
    StructWithTableName(<<"P", "o", "s", "t", "D", "r", "a", "f", "t">>, <<"p", "o", "s", "t", "s">>,
           <<Field(<<"H", "i", "d", "d", "e", "n">>, "string", <<"-", ":", "a", "l", "l">>, <<>>),
             Field(<<"B", "o", "d", "y">>, "string", <<"t", "y", "p", "e", ":", "t", "e", "x", "t", ";", "n", "o", "t", " ", "n", "u", "l", "l">>, <<>>)>>)

\* A model of the table "gases", whose singular "gas" is its own plural.
Gas ==
    StructWithTableName(<<"G", "a", "s">>, <<"g", "a", "s", "e", "s">>,
           <<BaseModel,
             Field(<<"F", "o", "r", "m", "u", "l", "a">>, "string", <<"n", "o", "t", " ", "n", "u", "l", "l">>, <<>>)>>)

\* A model that embeds BaseModel and declares a member ID of its own.
Article ==
    Struct(<<"A", "r", "t", "i", "c", "l", "e">>,
           <<BaseModel,
             Field(<<"I", "D">>, "string", <<"n", "o", "t", " ", "n", "u", "l", "l">>, <<>>),
             Field(<<"T", "i", "t", "l", "e">>, "string", <<"n", "o", "t", " ", "n", "u", "l", "l">>, <<>>)>>)

\* A model whose embedded base structure embeds the marker struct AdminOnly.
Managed ==
    Struct(<<"M", "a", "n", "a", "g", "e", "d">>,
           <<Embedded(<<"B", "a", "s", "e">>, "struct", "struct",
                      <<AdminOnly, Field(<<"O", "w", "n", "e", "r">>, "string", <<>>, <<>>)>>),
             Field(<<"N", "a", "m", "e">>, "string", <<"n", "o", "t", " ", "n", "u", "l", "l">>, <<>>)>>)

\* A model whose embedded base structure embeds the marker struct Hidden.
Shadow ==
    Struct(<<"S", "h", "a", "d", "o", "w">>,
           <<Embedded(<<"B", "a", "s", "e">>, "struct", "struct",
                      <<Hidden, Field(<<"O", "w", "n", "e", "r">>, "string", <<>>, <<>>)>>),
             Field(<<"N", "a", "m", "e">>, "string", <<"n", "o", "t", " ", "n", "u", "l", "l">>, <<>>)>>)

\* Models that only the specifications about one operation register.
OtherModels ==
    {Gas, Article, Managed, Shadow}

\* The models RegisterSchema is called with.
Models ==
    {User, UserToken, Post, UserView, PostRow, Box, Crate, PostDraft}

ModelNamed(typeName) ==
    CHOOSE model \in Models \cup OtherModels : model.Name = typeName

\* ----------------------------------------------------------------- reflection

getTableName(model) ==
    IF model.Tabler THEN model.TableName ELSE NamingStrategyTableName(model.Name)

\* jsonName of extractFieldsRecursive
JsonName(field) ==
    IF field.JSONTag # <<>> /\ field.JSONTag # <<"-">> /\ FirstPart(field.JSONTag) # <<>>
    THEN FirstPart(field.JSONTag)
    ELSE field.Name

FieldMetadata(field) ==
    [Name |-> JsonName(field),
     Type |-> field.Type,
     GormTag |-> field.GormTag,
     JSONTag |-> field.JSONTag,
     Required |-> Contains(field.GormTag, <<"n", "o", "t", " ", "n", "u", "l", "l">>),
     PrimaryKey |-> Contains(field.GormTag, <<"p", "r", "i", "m", "a", "r", "y", "K", "e", "y">>) \/ Contains(field.GormTag, <<"p", "r", "i", "m", "a", "r", "y", "k", "e", "y">>)]

RECURSIVE extractFieldsRecursive(_)
extractFieldsRecursive(structFields) ==
    IF structFields = <<>> THEN <<>>
    ELSE LET field == Head(structFields)
             embeddedKind == IF field.Kind = "ptr" THEN field.ElemKind ELSE field.Kind
             own == IF field.Anonymous
                    THEN IF embeddedKind = "struct" THEN extractFieldsRecursive(field.Fields) ELSE <<>>
                    ELSE IF ToLower(field.Name) = <<"a", "d", "m", "i", "n", "o", "n", "l", "y">> THEN <<>>
                    ELSE IF field.GormTag = <<"-">> \/ field.GormTag = <<"-", ":", "a", "l", "l">> THEN <<>>
                    ELSE <<FieldMetadata(field)>>
         IN  own \o extractFieldsRecursive(Tail(structFields))

extractFields(model) ==
    extractFieldsRecursive(model.Fields)

\* Members a struct type may declare: an ordinary one, members named like the
\* two markers with and without the tag that excludes them, an excluded one.
DeclaredMembers ==
    {Field(<<"T", "i", "t", "l", "e">>, "string", <<"n", "o", "t", " ", "n", "u", "l", "l">>, <<>>),
     Field(<<"H", "i", "d", "d", "e", "n">>, "bool", <<>>, <<>>),
     Field(<<"h", "i", "d", "d", "e", "n">>, "string", <<"-", ":", "a", "l", "l">>, <<>>),
     Field(<<"A", "d", "m", "i", "n", "O", "n", "l", "y">>, "bool", <<>>, <<>>),
     Field(<<"S", "e", "c", "r", "e", "t">>, "string", <<"-">>, <<>>)}

\* The members of a struct type: declared ones, and structs that declare one,
\* embedded by value and, one level further down, by pointer.
EmbeddableMembers ==
    LET Meta(member) == Embedded(<<"M", "e", "t", "a">>, "struct", "struct", <<member>>)
        Audit(member) == Embedded(<<"A", "u", "d", "i", "t">>, "ptr", "struct", <<Meta(member)>>)
    IN  DeclaredMembers \cup {Meta(member) : member \in DeclaredMembers}
                        \cup {Audit(member) : member \in DeclaredMembers}

\* The struct types extractFields is called with: one or two members.
ExtractedTypes ==
    {Struct(<<"A", "r", "t", "i", "c", "l", "e">>, <<a>>) : a \in EmbeddableMembers}
        \cup {Struct(<<"A", "r", "t", "i", "c", "l", "e">>, <<a, b>>) : a \in EmbeddableMembers, b \in EmbeddableMembers}

\* hasHiddenField comparing the field name as declared.
hasHiddenField_ExactCase(model) ==
    \E i \in 1 .. Len(model.Fields) : model.Fields[i].Name = <<"h", "i", "d", "d", "e", "n">>

hasHiddenField(model) ==
    \E i \in 1 .. Len(model.Fields) : ToLower(model.Fields[i].Name) = <<"h", "i", "d", "d", "e", "n">>

\* hasAdminOnlyField comparing the field name as declared.
hasAdminOnlyField_ExactCase(model) ==
    \E i \in 1 .. Len(model.Fields) : model.Fields[i].Name = <<"a", "d", "m", "i", "n", "o", "n", "l", "y">>

hasAdminOnlyField(model) ==
    \E i \in 1 .. Len(model.Fields) : ToLower(model.Fields[i].Name) = <<"a", "d", "m", "i", "n", "o", "n", "l", "y">>

\* -------------------------------------------------------------- RegisterSchema

\* The variables of package permissions, which package schemaregistry never touches.
permissionVars ==
    <<nameToPermission, permissionToName, nextBit, db, customPermissions,
      lastCall, lastAllocBit, issued, unregisters, reloaded, hasCall, raceVars>>

\* The locals RegisterSchema computes from its argument before it looks at them.
Locals ==
    [model \in Models \cup OtherModels |->
        [tableName |-> getTableName(model),
         adminOnly |-> hasAdminOnlyField(model),
         hasHiddenField |-> hasHiddenField(model),
         fields |-> extractFields(model)]]

\* The entry RegisterSchema stores.
SchemaMetadata(model) ==
    [TableName |-> Locals[model].tableName,
     AdminOnly |-> Locals[model].adminOnly,
     Fields |-> Locals[model].fields]

\* The package state, with what is recorded about the registrations.
SchemaState(reg, als, done, lastReg, lastAls) ==
    [registry |-> reg, aliases |-> als, registered |-> done,
     lastRegistered |-> lastReg, lastAliased |-> lastAls]

\* AliasesAfter that records the singular form even when it is the table name.
AliasesAfter_Always(als, tableName) ==
    MapPut(als, singularize(tableName), tableName)

\* AliasesAfter that keeps an alias already recorded.
AliasesAfter_KeepsFirst(als, tableName) ==
    LET singular == singularize(tableName)
    IN  IF singular # tableName /\ singular \notin DOMAIN als
        THEN MapPut(als, singular, tableName)
        ELSE als

\* aliases after RegisterSchema wrote the entry of tableName
AliasesAfter(als, tableName) ==
    LET singular == singularize(tableName)
    IN  IF singular # tableName THEN MapPut(als, singular, tableName) ELSE als

\* The state RegisterSchema(model) leaves, from the state st.
RegisterSchemaIn(st, model) ==
    LET tableName == Locals[model].tableName
        singular == singularize(tableName)
        done == st.registered \cup {model.Name}
    IN  IF Locals[model].hasHiddenField
        THEN SchemaState(st.registry, st.aliases, done, st.lastRegistered, st.lastAliased)
        ELSE SchemaState(MapPut(st.registry, tableName, SchemaMetadata(model)),
                         AliasesAfter(st.aliases, tableName),
                         done,
                         MapPut(st.lastRegistered, tableName, model.Name),
                         IF singular # tableName
                         THEN MapPut(st.lastAliased, singular, model.Name)
                         ELSE st.lastAliased)

RECURSIVE RegisterSchemasIn(_, _)
\* The state the loop of RegisterSchemas(models) leaves, from the state st.
RegisterSchemasIn(st, models) ==
    IF models = <<>> THEN st
    ELSE RegisterSchemasIn(RegisterSchemaIn(st, Head(models)), Tail(models))

SetSchemaState(st) ==
    /\ registry' = st.registry
    /\ aliases' = st.aliases
    /\ registered' = st.registered
    /\ lastRegistered' = st.lastRegistered
    /\ lastAliased' = st.lastAliased

CurrentSchemaState ==
    SchemaState(registry, aliases, registered, lastRegistered, lastAliased)

RegisterSchema(model) ==
    /\ SetSchemaState(RegisterSchemaIn(CurrentSchemaState, model))
    /\ schemaCall' = [op |-> "RegisterSchema", model |-> model.Name]
    /\ UNCHANGED <<permissionVars, lockVars>>

\* var DefaultSchema = []interface{}{&User{}, &UserToken{}}, and other model lists
DefaultSchema == <<User, UserToken>>

ModelLists ==
    {DefaultSchema, <<PostDraft, Post>>, <<Box, Crate>>}

RegisterSchemas(models) ==
    /\ SetSchemaState(RegisterSchemasIn(CurrentSchemaState, models))
    /\ schemaCall' = [op |-> "RegisterSchemas", models |-> [i \in 1 .. Len(models) |-> models[i].Name]]
    /\ UNCHANGED <<permissionVars, lockVars>>

\* ------------------------------------------------------------------- lookups

\* What a read leaves alone.
ReadOnly ==
    UNCHANGED <<registry, aliases, registered, lastRegistered, lastAliased, permissionVars, lockVars>>

\* ResolveTableName with the alias index consulted before the registry.
ResolveTableName_AliasesFirst(reg, als, name) ==
    LET snakeName == NamingStrategyTableName(name)
    IN  IF name \in DOMAIN als THEN <<als[name], TRUE>>
        ELSE IF name \in DOMAIN reg THEN <<name, TRUE>>
        ELSE IF snakeName \in DOMAIN reg THEN <<snakeName, TRUE>>
        ELSE IF snakeName \in DOMAIN als THEN <<als[snakeName], TRUE>>
        ELSE <<<<>>, FALSE>>

ResolveTableName(reg, als, name) ==
    LET snakeName == NamingStrategyTableName(name)
    IN  IF name \in DOMAIN reg THEN <<name, TRUE>>
        ELSE IF name \in DOMAIN als THEN <<als[name], TRUE>>
        ELSE IF snakeName \in DOMAIN reg THEN <<snakeName, TRUE>>
        ELSE IF snakeName \in DOMAIN als THEN <<als[snakeName], TRUE>>
        ELSE <<<<>>, FALSE>>

IsAdminOnly(reg, tableName) ==
    IF tableName \in DOMAIN reg THEN reg[tableName].AdminOnly ELSE FALSE

\* The zero value of SchemaMetadata.
ZeroSchemaMetadata ==
    [TableName |-> <<>>, AdminOnly |-> FALSE, Fields |-> <<>>]

GetMetadata(reg, tableName) ==
    IF tableName \in DOMAIN reg THEN <<reg[tableName], TRUE>> ELSE <<ZeroSchemaMetadata, FALSE>>

GetAllRegisteredSchemas(reg) ==
    [tableName \in DOMAIN reg |-> [AdminOnly |-> reg[tableName].AdminOnly]]

\* Every table name, singular and type name of the models, and a name of none of them.
LookupNames ==
    UNION {{model.Name, getTableName(model), singularize(getTableName(model))} : model \in Models}
        \cup {<<"w", "i", "d", "g", "e", "t">>}

\* The names ResolveTableName is called with.
ResolvedNames ==
    {<<"p", "o", "s", "t", "s">>, <<"p", "o", "s", "t">>, <<"P", "o", "s", "t">>, <<"u", "s", "e", "r", "_", "t", "o", "k", "e", "n">>, <<"b", "o", "x">>, <<"w", "i", "d", "g", "e", "t">>}

\* The names IsAdminOnly is called with.
CheckedTables ==
    {<<"u", "s", "e", "r", "s">>, <<"p", "o", "s", "t">>, <<"w", "i", "d", "g", "e", "t">>}

\* The names GetMetadata is called with.
DescribedTables ==
    {<<"u", "s", "e", "r", "s">>, <<"u", "s", "e", "r", "_", "t", "o", "k", "e", "n", "s">>, <<"w", "i", "d", "g", "e", "t">>}

ResolveTableNameCall(name) ==
    /\ schemaCall' = [op |-> "ResolveTableName", name |-> name,
                      result |-> ResolveTableName(registry, aliases, name)]
    /\ ReadOnly

\* The names singularize is applied to: the letters of its suffixes and one other.
SingularizedNames ==
    UNION {[1 .. n -> {"s", "e", "i", "x", "z", "c", "h", "b"}] : n \in 0 .. MaxNameLen}

\* singularize(name) is called and returns.
SingularizeCall ==
    /\ schemaCall.op = "call singularize"
    /\ schemaCall' = [op |-> "singularize", name |-> schemaCall.name,
                      result |-> singularize(schemaCall.name)]
    /\ ReadOnly

\* extractFields(model) is called and returns.
ExtractFieldsCall(model) ==
    /\ schemaCall' = [op |-> "extractFields", model |-> model, result |-> extractFields(model)]
    /\ ReadOnly

IsAdminOnlyCall(tableName) ==
    /\ schemaCall' = [op |-> "IsAdminOnly", name |-> tableName,
                      result |-> IsAdminOnly(registry, tableName)]
    /\ ReadOnly

GetMetadataCall(tableName) ==
    /\ schemaCall' = [op |-> "GetMetadata", name |-> tableName,
                      result |-> GetMetadata(registry, tableName)]
    /\ ReadOnly

GetAllRegisteredSchemasCall ==
    /\ schemaCall' = [op |-> "GetAllRegisteredSchemas", result |-> GetAllRegisteredSchemas(registry)]
    /\ ReadOnly

\* --------------------------------------------------------------- ValidateBody

\* MustBeSupplied without the exemption of the primary key.
MustBeSupplied_PrimaryKeyToo(field) ==
    field.Required

\* if field.Required && !field.PrimaryKey
MustBeSupplied(field) ==
    field.Required /\ ~field.PrimaryKey

RECURSIVE MissingFields(_, _)
\* The second loop of ValidateBody: the fields in order, the absent required ones appended.
MissingFields(fields, body) ==
    IF fields = <<>> THEN <<>>
    ELSE (IF MustBeSupplied(Head(fields)) /\ Head(fields).Name \notin DOMAIN body
          THEN <<Head(fields).Name>>
          ELSE <<>>) \o MissingFields(Tail(fields), body)

\* The keys of fieldMap.
FieldMapKeys(fields) ==
    {fields[i].Name : i \in 1 .. Len(fields)}

\* The orders in which a range over a Go map with the keys S can append them.
Orderings(S) ==
    {order \in [1 .. Cardinality(S) -> S] : \A i, j \in 1 .. Cardinality(S) : i # j => order[i] # order[j]}

\* ValidateBody that validates an unregistered table as one without fields.
ValidateBody_UnknownTableHasNoFields(reg, tableName, body) ==
    LET fields == IF tableName \in DOMAIN reg THEN reg[tableName].Fields ELSE <<>>
    IN  {[missingFields |-> MissingFields(fields, body), unknownFields |-> unknown] :
             unknown \in Orderings({key \in DOMAIN body : key \notin FieldMapKeys(fields)})}

\* The results ValidateBody(tableName, body) can return.
ValidateBody(reg, tableName, body) ==
    IF tableName \notin DOMAIN reg
    THEN {[missingFields |-> <<>>, unknownFields |-> <<>>]}
    ELSE LET fields == reg[tableName].Fields
         IN  {[missingFields |-> MissingFields(fields, body), unknownFields |-> unknown] :
                  unknown \in Orderings({key \in DOMAIN body : key \notin FieldMapKeys(fields)})}

\* The keys a request body is built from, and its values: JSON null or a string.
BodyKeys ==
    {<<"T", "i", "t", "l", "e">>, <<"e", "x", "t", "r", "a">>, <<"m", "o", "r", "e">>}

Bodies ==
    UNION {[keys -> {"null", "text"}] : keys \in SUBSET BodyKeys}

ValidatedNames ==
    {<<"p", "o", "s", "t", "s">>, <<"u", "s", "e", "r", "s">>, <<"p", "o", "s", "t">>}

ValidateBodyCall(tableName, body) ==
    /\ \E result \in ValidateBody(registry, tableName, body) :
           schemaCall' = [op |-> "ValidateBody", name |-> tableName, body |-> body,
                          result |-> result]
    /\ ReadOnly

\* ------------------------------------------------------------ sync.RWMutex

(***************************************************************************)
(* The operations of the registry as goroutines run them: each takes mu,   *)
(* reads or writes under it, and releases it on return (defer).  As Go's   *)
(* sync.RWMutex does, a Lock call that waits for the readers to leave is   *)
(* pending from the moment of the call, and RLock waits while a writer     *)
(* holds the lock or is pending.                                           *)
(***************************************************************************)

\* mu.RLock() can return.
RLockFree ==
    mu.writer = NoGoroutine /\ mu.pending = {}

\* mu.Lock() of g can return.
LockFree(g) ==
    /\ g \in mu.pending
    /\ mu.writer = NoGoroutine
    /\ \A h \in Goroutines : mu.readers[h] = 0

RLocked(g) ==
    [mu EXCEPT !.readers[g] = @ + 1]

RUnlocked(g) ==
    [mu EXCEPT !.readers[g] = @ - 1]

At(g, op, at) ==
    goroutines[g].op = op /\ goroutines[g].at = at

Goto(g, position) ==
    goroutines' = [goroutines EXCEPT ![g] = position]

\* What the steps of a reading operation leave alone.
LockStepOnly ==
    UNCHANGED <<registry, aliases, registered, lastRegistered, lastAliased, schemaCall, permissionVars>>

\* The operations that take the read lock once: lines 194, 205, 257, 290, 328, 365.
ReadOperations ==
    {"IsAdminOnly", "GetMetadata", "ValidateBody", "ResolveTableName",
     "GenerateTypescriptInterface", "GetAllRegisteredSchemas"}

\* The models registered while other goroutines read.
LockModels == {User, UserToken, Post}

\* RegisterSchema up to mu.Lock(): a concealed model returns, another calls Lock.
CallRegisterSchema(g, model) ==
    /\ goroutines[g] = Idle
    /\ IF Locals[model].hasHiddenField
       THEN /\ SetSchemaState(RegisterSchemaIn(CurrentSchemaState, model))
            /\ schemaCall' = [op |-> "RegisterSchema", model |-> model.Name]
            /\ UNCHANGED lockVars
       ELSE /\ Goto(g, [op |-> "RegisterSchema", at |-> "Lock", model |-> model.Name, todo |-> {}])
            /\ mu' = [mu EXCEPT !.pending = @ \cup {g}]
            /\ UNCHANGED <<registry, aliases, registered, lastRegistered, lastAliased, schemaCall>>
    /\ UNCHANGED permissionVars

\* mu.Lock() returns.
Lock(g) ==
    /\ At(g, "RegisterSchema", "Lock")
    /\ LockFree(g)
    /\ mu' = [mu EXCEPT !.writer = g, !.pending = @ \ {g}]
    /\ Goto(g, [goroutines[g] EXCEPT !.at = "locked"])
    /\ LockStepOnly

\* RegisterSchema from the assignment of the entry to the deferred mu.Unlock().
RegisterSchemaLocked(g) ==
    /\ At(g, "RegisterSchema", "locked")
    /\ SetSchemaState(RegisterSchemaIn(CurrentSchemaState, ModelNamed(goroutines[g].model)))
    /\ schemaCall' = [op |-> "RegisterSchema", model |-> goroutines[g].model]
    /\ mu' = [mu EXCEPT !.writer = NoGoroutine]
    /\ Goto(g, Idle)
    /\ UNCHANGED permissionVars

\* A reading operation is called and reaches its mu.RLock().
CallRead(g, op) ==
    /\ goroutines[g] = Idle
    /\ Goto(g, [op |-> op, at |-> "RLock", model |-> "", todo |-> {}])
    /\ UNCHANGED mu
    /\ LockStepOnly

\* mu.RLock() returns, at the head of an operation.
RLock(g) ==
    /\ goroutines[g].at = "RLock"
    /\ RLockFree
    /\ mu' = RLocked(g)
    /\ Goto(g, [goroutines[g] EXCEPT !.at = "rlocked",
                                     !.todo = IF goroutines[g].op = "GenerateAllTypescriptInterfaces"
                                              THEN DOMAIN registry ELSE {}])
    /\ LockStepOnly

\* An operation of ReadOperations, from its read to the deferred mu.RUnlock().
ReadLocked(g) ==
    /\ goroutines[g].op \in ReadOperations
    /\ goroutines[g].at = "rlocked"
    /\ mu' = RUnlocked(g)
    /\ Goto(g, Idle)
    /\ LockStepOnly

\* GenerateAllTypescriptInterfaces: the next table of the range over registry
\* calls GenerateTypescriptInterface, which reaches its own mu.RLock().
CallInner(g) ==
    /\ At(g, "GenerateAllTypescriptInterfaces", "rlocked")
    /\ \E tableName \in goroutines[g].todo :
           Goto(g, [goroutines[g] EXCEPT !.at = "innerRLock", !.todo = @ \ {tableName}])
    /\ UNCHANGED mu
    /\ LockStepOnly

\* mu.RLock() of the inner GenerateTypescriptInterface returns.
InnerRLock(g) ==
    /\ At(g, "GenerateAllTypescriptInterfaces", "innerRLock")
    /\ RLockFree
    /\ mu' = RLocked(g)
    /\ Goto(g, [goroutines[g] EXCEPT !.at = "innerRLocked"])
    /\ LockStepOnly

\* The inner GenerateTypescriptInterface returns through its deferred mu.RUnlock().
InnerReturn(g) ==
    /\ At(g, "GenerateAllTypescriptInterfaces", "innerRLocked")
    /\ mu' = RUnlocked(g)
    /\ Goto(g, [goroutines[g] EXCEPT !.at = "rlocked"])
    /\ LockStepOnly

\* GenerateAllTypescriptInterfaces returns after the last table.
ReturnAll(g) ==
    /\ At(g, "GenerateAllTypescriptInterfaces", "rlocked")
    /\ goroutines[g].todo = {}
    /\ mu' = RUnlocked(g)
    /\ Goto(g, Idle)
    /\ LockStepOnly

\* ------------------------------------------------- RegisterCollectionRoutes

\* RequestRequiresPermission: the user of the request's token holds the permissions.
RequestRequiresPermission(request, requiredPermissions) ==
    request.authToken = "valid" /\ HasPermission(request.held, requiredPermissions)

\* AuthMiddlewareWithDatabase lets the request through to the handler.
AuthMiddlewareWithDatabase(request) ==
    request.authToken = "valid"

\* POST /collection/{collectionName}/update and /create: the status answered.
CreateOrUpdate(reg, als, request) ==
    LET resolved == ResolveTableName(reg, als, request.collectionName)
    IN  IF ~AuthMiddlewareWithDatabase(request) THEN "401"
        ELSE IF ~resolved[2] THEN "400"
        ELSE IF ~RequestRequiresPermission(request, ManageModels) THEN "403"
        ELSE IF ~request.bodyOk THEN "400"
        ELSE "200"

\* POST /collection/{collectionName}/get: the status answered.
Get(reg, als, request) ==
    LET resolved == ResolveTableName(reg, als, request.collectionName)
    IN  IF ~resolved[2] THEN "400"
        ELSE IF IsAdminOnly(reg, resolved[1]) /\ request.authToken = "none" THEN "401"
        ELSE IF IsAdminOnly(reg, resolved[1]) /\ ~RequestRequiresPermission(request, ViewModels) THEN "403"
        ELSE "200"

\* The requests made: the route, the name in the path, the token the request
\* carries, the permissions of the token's user, whether the body is accepted.
Requests ==
    [endpoint : {"get", "create", "update"},
     collectionName : {<<"u", "s", "e", "r", "s">>, <<"u", "s", "e", "r">>, <<"p", "o", "s", "t", "s">>, <<"w", "i", "d", "g", "e", "t">>},
     authToken : {"none", "invalid", "valid"},
     held : {{}, ViewModels, ManageModels, Administrator},
     bodyOk : BOOLEAN]

\* A request to a collection route is answered.
CollectionRequest(request) ==
    /\ schemaCall' = [op |-> request.endpoint, request |-> request,
                      result |-> IF request.endpoint = "get"
                                 THEN Get(registry, aliases, request)
                                 ELSE CreateOrUpdate(registry, aliases, request)]
    /\ ReadOnly

\* -------------------------------------------------------------- registry.mu

(***************************************************************************)
(* RegisterPermission statement by statement and the reads of the maps,    *)
(* as concurrent goroutines run them under registry.mu.                    *)
(***************************************************************************)

\* registry.mu.RLock() that does not wait for a writer.
RegistryRLockFree_IgnoresWriter ==
    TRUE

\* registry.mu.RLock() can return.
RegistryRLockFree ==
    registryMu.writer = NoGoroutine /\ registryMu.pending = {}

\* The reads of the maps with their arguments: lines 164, 192, 204, 218, 233.
Reads ==
    {[op |-> "GetPermissionByName", name |-> "NewCap", perm |-> {}],
     [op |-> "AllPermissionsAsStrings", name |-> "", perm |-> {}],
     [op |-> "PermissionsToStrings", name |-> "", perm |-> 0 .. (PermissionWidth - 1)],
     [op |-> "StringsToPermission", name |-> "NewCap", perm |-> {}],
     [op |-> "PermissionToName", name |-> "", perm |-> Bit(maxBuiltinBit)]}

\* What a read returns from the maps of reg; a list in map order is given as a set.
ReadOf(reg, read) ==
    CASE read.op = "GetPermissionByName" ->
             IF read.name \in DOMAIN reg.nameToPermission
             THEN <<reg.nameToPermission[read.name], TRUE>>
             ELSE <<{}, FALSE>>
      [] read.op = "AllPermissionsAsStrings" ->
             DOMAIN reg.nameToPermission
      [] read.op = "PermissionsToStrings" ->
             {reg.permissionToName[p] : p \in {q \in DOMAIN reg.permissionToName : PermAnd(read.perm, q) = q}}
      [] read.op = "StringsToPermission" ->
             IF read.name \in DOMAIN reg.nameToPermission
             THEN reg.nameToPermission[read.name]
             ELSE {}
      [] read.op = "PermissionToName" ->
             IF read.perm \in DOMAIN reg.permissionToName
             THEN reg.permissionToName[read.perm]
             ELSE "Unknown"

\* A goroutine calls RegisterPermission(name) or a read and reaches its Lock() or RLock().
CallPermissions(g, call) ==
    /\ callers[g].op = "idle"
    /\ callers' = [callers EXCEPT ![g] =
                       [op |-> call.op, name |-> call.name, perm |-> call.perm,
                        at |-> IF call.op = "RegisterPermission" THEN "Lock" ELSE "RLock"]]
    /\ registryMu' = IF call.op = "RegisterPermission"
                     THEN [registryMu EXCEPT !.pending = @ \cup {g}]
                     ELSE registryMu
    /\ UNCHANGED <<nameToPermission, permissionToName, nextBit, db, customPermissions,
                   lastCall, lastAllocBit, issued, unregisters, reloaded, hasCall,
                   stable, lastRead, schemaVars>>

\* registry.mu.Lock() or registry.mu.RLock() returns.
RegistryLock(g) ==
    /\ \/ /\ callers[g].at = "Lock"
          /\ g \in registryMu.pending
          /\ registryMu.writer = NoGoroutine
          /\ \A h \in Goroutines : registryMu.readers[h] = 0
          /\ registryMu' = [registryMu EXCEPT !.writer = g, !.pending = @ \ {g}]
       \/ /\ callers[g].at = "RLock"
          /\ RegistryRLockFree
          /\ registryMu' = [registryMu EXCEPT !.readers[g] = @ + 1]
    /\ callers' = [callers EXCEPT ![g].at = "locked"]
    /\ UNCHANGED <<nameToPermission, permissionToName, nextBit, db, customPermissions,
                   lastCall, lastAllocBit, issued, unregisters, reloaded, hasCall,
                   stable, lastRead, schemaVars>>

\* One statement of RegisterPermission under the lock: the registry and the
\* table it leaves, and the position reached - or the call that returned.
Statement(g, reg, rows, position, returned) ==
    /\ SetRegistry(reg)
    /\ customPermissions' = rows
    /\ IF position = "return"
       THEN /\ registryMu' = [registryMu EXCEPT !.writer = NoGoroutine]
            /\ callers' = [callers EXCEPT ![g] = [op |-> "idle", at |-> "idle", name |-> "", perm |-> {}]]
            /\ lastCall' = returned
            /\ stable' = reg
       ELSE /\ callers' = [callers EXCEPT ![g].at = position, ![g].perm = returned.perm]
            /\ UNCHANGED <<registryMu, lastCall, stable>>
    /\ UNCHANGED <<db, lastAllocBit, issued, unregisters, reloaded, hasCall, lastRead, schemaVars>>

\* RegisterPermission between Lock() and the deferred Unlock(), a statement at a time.
RegisterPermissionStep(g) ==
    LET name == callers[g].name
        perm == callers[g].perm
        at == callers[g].at
        reg == Registry
        Ok(p) == Call("RegisterPermission", name, p, "nil")
        Failed(err) == Call("RegisterPermission", name, {}, err)
    IN  /\ callers[g].op = "RegisterPermission"
        /\ \/ /\ at = "locked"
              /\ IF name \in DOMAIN nameToPermission
                 THEN Statement(g, reg, customPermissions, "return", Ok(nameToPermission[name]))
                 ELSE IF NextBitExhausted(nextBit)
                 THEN Statement(g, reg, customPermissions, "return", Failed("ErrMaxPermissionsReached"))
                 ELSE Statement(g, [reg EXCEPT !.nextBit = IncrementNextBit(nextBit)],
                                customPermissions, "counted", Ok(Bit(nextBit)))
           \/ /\ at = "counted"
              /\ Statement(g, [reg EXCEPT !.nameToPermission = MapPut(@, name, perm)],
                           customPermissions, "named", Ok(perm))
           \/ /\ at = "named"
              /\ Statement(g, [reg EXCEPT !.permissionToName = MapPut(@, perm, name)],
                           customPermissions, "mapped", Ok(perm))
           \/ /\ at = "mapped"
              /\ \E ioOk \in BOOLEAN :
                     LET bitPos == nextBit - 1
                         created == ioOk /\ DbCreateAllowed(customPermissions, name, bitPos)
                     IN  IF ~db THEN Statement(g, reg, customPermissions, "return", Ok(perm))
                         ELSE IF created
                         THEN Statement(g, reg, DbCreate(customPermissions, name, bitPos), "return", Ok(perm))
                         ELSE Statement(g, reg, customPermissions, "failed", Ok(perm))
           \/ /\ at = "failed"
              /\ Statement(g, [reg EXCEPT !.nameToPermission = MapDelete(@, name)],
                           customPermissions, "unnamed", Ok(perm))
           \/ /\ at = "unnamed"
              /\ Statement(g, [reg EXCEPT !.permissionToName = MapDelete(@, perm)],
                           customPermissions, "unmapped", Ok(perm))
           \/ /\ at = "unmapped"
              /\ Statement(g, [reg EXCEPT !.nextBit = @ - 1], customPermissions, "return", Failed("db"))

\* A read between RLock() and the deferred RUnlock().
ReadUnderLock(g) ==
    /\ callers[g].op \in {read.op : read \in Reads}
    /\ callers[g].at = "locked"
    /\ lastRead' = [op |-> callers[g].op, name |-> callers[g].name, perm |-> callers[g].perm,
                    seen |-> ReadOf(Registry, callers[g]), stable |-> stable]
    /\ registryMu' = [registryMu EXCEPT !.readers[g] = @ - 1]
    /\ callers' = [callers EXCEPT ![g] = [op |-> "idle", at |-> "idle", name |-> "", perm |-> {}]]
    /\ UNCHANGED <<nameToPermission, permissionToName, nextBit, db, customPermissions,
                   lastCall, lastAllocBit, issued, unregisters, reloaded, hasCall,
                   stable, schemaVars>>

\* ------------------------------------- LoadCustomPermissions, statement by statement

(***************************************************************************)
(* LoadCustomPermissions reads the table before it takes registry.mu.      *)
(* RegisterPermission and UnregisterPermission hold the lock from their    *)
(* first statement to their return, and so does the loop of the load:      *)
(* each of them is one step of any interleaving.                           *)
(***************************************************************************)

\* Lines 76-79: db.Order("bit_position asc").Find(&customPerms), no lock held.
LoadFind(g) ==
    /\ callers[g].op = "idle"
    /\ \E findOk \in BOOLEAN :
          IF findOk
          THEN /\ callers' = [callers EXCEPT ![g] =
                                  [op |-> "LoadCustomPermissions", at |-> "Lock", name |-> "",
                                   perm |-> {}, customPerms |-> DbFind(customPermissions)]]
               /\ UNCHANGED lastCall
          ELSE /\ lastCall' = Call("LoadCustomPermissions", "", {}, "db")
               /\ UNCHANGED callers
    /\ UNCHANGED <<nameToPermission, permissionToName, nextBit, db, customPermissions,
                   lastAllocBit, issued, unregisters, reloaded, hasCall,
                   registryMu, stable, lastRead, schemaVars>>

\* Lines 81-94: registry.mu.Lock(), the loop over customPerms, the deferred Unlock().
LoadLocked(g) ==
    /\ callers[g].op = "LoadCustomPermissions"
    /\ callers[g].at = "Lock"
    /\ SetRegistry(LoadRows(Registry, callers[g].customPerms))
    /\ lastCall' = Call("LoadCustomPermissions", "", {}, "nil")
    /\ callers' = [callers EXCEPT ![g] = [op |-> "idle", at |-> "idle", name |-> "", perm |-> {}]]
    /\ UNCHANGED <<db, customPermissions, lastAllocBit, issued, unregisters, reloaded, hasCall,
                   registryMu, stable, lastRead, schemaVars>>

\* -------------------------------------------------------------- process restart

\* The process ends and starts again: the package variable registry is built
\* anew and init() seeds the built-ins; the table is what the last run left.
Restart ==
    /\ permissionToName' = builtins
    /\ nameToPermission' = [n \in BuiltinNames |-> CHOOSE p \in DOMAIN builtins : builtins[p] = n]
    /\ nextBit' = maxBuiltinBit
    /\ db' = FALSE
    /\ lastCall' = Call("restart", "", {}, "nil")
    /\ reloaded' = FALSE
    /\ UNCHANGED <<customPermissions, lastAllocBit, issued, unregisters, hasCall,
                   raceVars, schemaVars>>

\* ------------------------------------------------------------------ Spec

Next ==
    \/ InitPermissions
    \/ LoadCustomPermissions
    \/ \E name \in RegisteredNames : RegisterPermission(name)
    \/ \E name \in Names : UnregisterPermission(name)

Spec == Init /\ [][Next]_vars

\* A process that never attaches storage: permissions are registered and checked.
InitHas ==
    /\ InitRegistry
    /\ customPermissions = {}
    /\ lastCall = NoCall
    /\ lastAllocBit = -1
    /\ issued = {}
    /\ unregisters = 0
    /\ reloaded = FALSE
    /\ hasCall = NoHasCall
    /\ InitCallers
    /\ InitSchemaRegistry

NextHas ==
    \/ \E name \in CustomNames : RegisterPermission(name)
    \/ \E u \in CheckedMasks, r \in CheckedMasks : HasPermissionCall(u, r)

SpecHas == InitHas /\ [][NextHas]_vars

\* The schema registry alone: the permission registry stays as constructed.
InitSchema ==
    InitHas

NextSchema ==
    \/ \E model \in Models : RegisterSchema(model)
    \/ \E models \in ModelLists : RegisterSchemas(models)
    \/ \E name \in ResolvedNames : ResolveTableNameCall(name)
    \/ \E name \in CheckedTables : IsAdminOnlyCall(name)
    \/ \E name \in DescribedTables : GetMetadataCall(name)
    \/ GetAllRegisteredSchemasCall

SpecSchema == InitSchema /\ [][NextSchema]_vars

\* The validation of request bodies against the models of two tables.
ValidatedModels ==
    {User, UserView, Post}

NextValidate ==
    \/ \E model \in ValidatedModels : RegisterSchema(model)
    \/ \E name \in ValidatedNames, body \in Bodies : ValidateBodyCall(name, body)

SpecValidate == InitSchema /\ [][NextValidate]_vars

\* The operations of the schema registry run by concurrent goroutines.
NextLock ==
    \E g \in Goroutines :
        \/ \E model \in LockModels : CallRegisterSchema(g, model)
        \/ Lock(g)
        \/ RegisterSchemaLocked(g)
        \/ \E op \in ReadOperations \cup {"GenerateAllTypescriptInterfaces"} : CallRead(g, op)
        \/ RLock(g)
        \/ ReadLocked(g)
        \/ CallInner(g)
        \/ InnerRLock(g)
        \/ InnerReturn(g)
        \/ ReturnAll(g)

SpecLock == InitSchema /\ [][NextLock]_vars

\* Package permissions after InitPermissions(db) over an empty table.
InitRace ==
    /\ permissionToName = builtins
    /\ nameToPermission = [n \in BuiltinNames |-> CHOOSE p \in DOMAIN builtins : builtins[p] = n]
    /\ nextBit = maxBuiltinBit
    /\ db = TRUE
    /\ customPermissions = {}
    /\ lastCall = NoCall
    /\ lastAllocBit = -1
    /\ issued = {}
    /\ unregisters = 0
    /\ reloaded = FALSE
    /\ hasCall = NoHasCall
    /\ InitCallers
    /\ InitSchemaRegistry

\* RegisterPermission and the reads of the maps run by concurrent goroutines.
NextRace ==
    \E g \in Goroutines :
        \/ \E call \in Reads \cup {[op |-> "RegisterPermission", name |-> "NewCap", perm |-> {}]} :
               CallPermissions(g, call)
        \/ RegistryLock(g)
        \/ RegisterPermissionStep(g)
        \/ ReadUnderLock(g)

SpecRace == InitRace /\ [][NextRace]_vars

\* LoadCustomPermissions run by goroutines next to calls of RegisterPermission
\* and UnregisterPermission, in a process that has attached its storage handle.
NextLoad ==
    \/ \E g \in Goroutines : LoadFind(g)
    \/ \E g \in Goroutines : LoadLocked(g)
    \/ \E name \in {"ViewPosts", "NewCap"} : RegisterPermission(name)
    \/ \E name \in {"ViewPosts", "NewCap"} : UnregisterPermission(name)

SpecLoad == InitRace /\ [][NextLoad]_vars

\* Runs of the process over one table, which is empty before the first run.
NextRestart ==
    \/ InitPermissions
    \/ \E name \in {"ViewPosts", "NewCap"} : RegisterPermission(name)
    \/ \E name \in {"ViewPosts", "NewCap"} : UnregisterPermission(name)
    \/ Restart

SpecRestart == InitHas /\ [][NextRestart]_vars

\* Registrations and requests to the collection routes.
NextCollections ==
    \/ \E model \in {User, Post} : RegisterSchema(model)
    \/ \E request \in Requests : CollectionRequest(request)

SpecCollections == InitSchema /\ [][NextCollections]_vars

\* Registrations and ResolveTableName with names that hit each of its lookups.
NextResolve ==
    \/ \E model \in {Post, PostRow, Gas, Box, Crate} : RegisterSchema(model)
    \/ \E name \in ResolvedNames \cup {<<"g", "a", "s", "e", "s">>, <<"g", "a", "s">>, <<"G", "a", "s">>} : ResolveTableNameCall(name)

SpecResolve == InitSchema /\ [][NextResolve]_vars

\* extractFields applied to struct types.
NextExtract ==
    \E model \in ExtractedTypes : ExtractFieldsCall(model)

SpecExtract == InitSchema /\ [][NextExtract]_vars

\* The models with embedded base structures, next to models with direct markers.
EmbeddingModels ==
    {User, PostRow, PostDraft, Article, Managed, Shadow}

\* Registrations of models with embedded base structures, and the reads of their entries.
NextEmbedding ==
    \/ \E model \in EmbeddingModels : RegisterSchema(model)
    \/ \E model \in EmbeddingModels : IsAdminOnlyCall(getTableName(model))
    \/ \E model \in EmbeddingModels : GetMetadataCall(getTableName(model))

SpecEmbedding == InitSchema /\ [][NextEmbedding]_vars

\* singularize is about to be called with a name.
InitSingularize ==
    /\ InitRegistry
    /\ customPermissions = {}
    /\ lastCall = NoCall
    /\ lastAllocBit = -1
    /\ issued = {}
    /\ unregisters = 0
    /\ reloaded = FALSE
    /\ hasCall = NoHasCall
    /\ InitCallers
    /\ registry = EmptyMap /\ aliases = EmptyMap /\ registered = {}
    /\ lastRegistered = EmptyMap /\ lastAliased = EmptyMap
    /\ mu = Unlocked /\ goroutines = [g \in Goroutines |-> Idle]
    /\ schemaCall \in [op : {"call singularize"}, name : SingularizedNames]

SpecSingularize == InitSingularize /\ [][SingularizeCall]_vars


\* ------------------------------------------------ GET /{collectionName}/metadata

(***************************************************************************)
(* The /metadata handler (collections.go 59-70) reads the registry twice,  *)
(* each time under its own RLock: ResolveTableName, then GetMetadata of    *)
(* the resolved name.  RegisterSchema runs beside it, its two writes taken *)
(* one by one under the Lock of line 172.  A read is one step: it needs    *)
(* RLock to return, and no write can fall between RLock and RUnlock.       *)
(***************************************************************************)

\* The models registered beside the handler.
MetadataModels == {User, Post, PostRow}

\* The collection names of the requests.
MetadataNames ==
    {<<"p", "o", "s", "t", "s">>, <<"p", "o", "s", "t">>, <<"u", "s", "e", "r">>, <<"P", "o", "s", "t">>, <<"w", "i", "d", "g", "e", "t">>}

\* RegisterSchema lines 175-179: the entry is written; mu stays locked.
WriteEntry(g) ==
    /\ At(g, "RegisterSchema", "locked")
    /\ LET model == ModelNamed(goroutines[g].model)
       IN  registry' = MapPut(registry, Locals[model].tableName, SchemaMetadata(model))
    /\ Goto(g, [goroutines[g] EXCEPT !.at = "entry"])
    /\ UNCHANGED <<aliases, registered, lastRegistered, lastAliased, schemaCall, mu, permissionVars>>

\* RegisterSchema lines 181-184 and the deferred mu.Unlock().
WriteAlias(g) ==
    /\ At(g, "RegisterSchema", "entry")
    /\ LET model == ModelNamed(goroutines[g].model)
           done == RegisterSchemaIn(CurrentSchemaState, model)
       IN  /\ aliases' = AliasesAfter(aliases, Locals[model].tableName)
           /\ registered' = done.registered
           /\ lastRegistered' = done.lastRegistered
           /\ lastAliased' = done.lastAliased
           /\ UNCHANGED registry
    /\ schemaCall' = [op |-> "RegisterSchema", model |-> goroutines[g].model]
    /\ mu' = [mu EXCEPT !.writer = NoGoroutine]
    /\ Goto(g, Idle)
    /\ UNCHANGED permissionVars

\* Lines 59-65: ResolveTableName(collectionName); an unknown name is answered 400.
MetadataResolve(g, collectionName) ==
    /\ goroutines[g] = Idle
    /\ RLockFree
    /\ LET resolved == ResolveTableName(registry, aliases, collectionName)
       IN  IF resolved[2]
           THEN /\ Goto(g, [op |-> "metadata", at |-> "resolved", model |-> "", todo |-> {},
                            collectionName |-> collectionName, resolvedName |-> resolved[1],
                            entries |-> DOMAIN registry])
                /\ UNCHANGED schemaCall
           ELSE /\ schemaCall' = [op |-> "metadata", name |-> collectionName, status |-> 400]
                /\ UNCHANGED goroutines
    /\ UNCHANGED <<registry, aliases, registered, lastRegistered, lastAliased, mu, permissionVars>>

\* Lines 66-70: GetMetadata(collectionName) of the resolved name, and the response.
MetadataGet(g) ==
    /\ At(g, "metadata", "resolved")
    /\ RLockFree
    /\ schemaCall' = [op |-> "metadata", name |-> goroutines[g].collectionName, status |-> 200,
                      resolvedName |-> goroutines[g].resolvedName,
                      entries |-> goroutines[g].entries,
                      result |-> GetMetadata(registry, goroutines[g].resolvedName)]
    /\ Goto(g, Idle)
    /\ UNCHANGED <<registry, aliases, registered, lastRegistered, lastAliased, mu, permissionVars>>

NextMetadata ==
    \E g \in Goroutines :
        \/ \E model \in MetadataModels : CallRegisterSchema(g, model)
        \/ Lock(g)
        \/ WriteEntry(g)
        \/ WriteAlias(g)
        \/ \E collectionName \in MetadataNames : MetadataResolve(g, collectionName)
        \/ MetadataGet(g)

SpecMetadata == InitSchema /\ [][NextMetadata]_vars

\* ---------------------------------------------------------------- claims

\* What a step is, read off the call it completes.
Registered(call) == call.op = "RegisterPermission" /\ call.err = "nil"

Loaded(call) == call.op \in {"LoadCustomPermissions", "InitPermissions"} /\ call.err = "nil"

\* Every bit position some name or some key of the reverse map holds.
MappedPermissions ==
    {nameToPermission[n] : n \in DOMAIN nameToPermission} \cup DOMAIN permissionToName

MemoryUnchanged ==
    /\ nameToPermission' = nameToPermission
    /\ permissionToName' = permissionToName
    /\ nextBit' = nextBit

\* C1: a successful RegisterPermission of a name that was not mapped returns a
\* single bit at a position >= maxBuiltinBit that no mapped permission holds and
\* that is above every position an earlier such registration returned.
C1_RegisterAllocatesFreshBit ==
    [][(Registered(lastCall') /\ lastCall'.name \notin DOMAIN nameToPermission)
        => \E bitPos \in maxBuiltinBit .. (PermissionWidth - 1) :
              /\ lastCall'.perm = {bitPos}
              /\ {bitPos} \notin MappedPermissions
              /\ bitPos > lastAllocBit]_vars

\* C1 has happened: two names were newly registered, the later at a higher bit.
C1_Witness ==
    /\ Registered(lastCall)
    /\ lastCall.perm = {lastAllocBit}
    /\ \E i \in issued : i[1] # lastCall.name /\ \E b \in i[2] : b < lastAllocBit /\ b >= maxBuiltinBit

\* The custom (name, Permission) pairs the two maps hold.
CustomInMemory ==
    {<<n, nameToPermission[n]>> : n \in (DOMAIN nameToPermission) \ BuiltinNames}
        \cup {<<permissionToName[p], p>> : p \in (DOMAIN permissionToName) \ (DOMAIN builtins)}

\* The (name, Permission) pairs of the live rows.
CustomDurable ==
    {<<r.Name, Bit(r.BitPosition)>> : r \in LiveRows(customPermissions)}

\* C2: whenever a storage handle is attached, the custom permissions in the
\* in-memory maps are exactly the live rows of the table.
C2_MemoryEqualsDurable ==
    db => CustomInMemory = CustomDurable

\* C3: a RegisterPermission whose db.Create fails returns the error with both
\* maps and the cursor as before the call, so that the next successful
\* registration of a new name receives the bit the failed call had taken.
C3_FailedCreateRollsBack ==
    [][/\ (lastCall'.op = "RegisterPermission" /\ lastCall'.err = "db")
            => /\ db /\ lastCall'.name \notin DOMAIN nameToPermission
               /\ MemoryUnchanged
               /\ lastCall'.perm = {}
       /\ (lastCall.op = "RegisterPermission" /\ lastCall.err = "db"
              /\ Registered(lastCall') /\ lastCall'.name \notin DOMAIN nameToPermission)
            => lastCall'.perm = Bit(nextBit)]_vars

\* C3 has happened: db.Create has just failed with a storage handle attached.
C3_Witness ==
    /\ lastCall.op = "RegisterPermission" /\ lastCall.err = "db"
    /\ db
    /\ lastCall.name \notin DOMAIN nameToPermission

\* C4: with the cursor at 64 or above, RegisterPermission of an unmapped name
\* returns ErrMaxPermissionsReached and changes neither map, nor the cursor, nor
\* the table; RegisterPermission of a mapped name still returns its permission.
C4_CapacityExceeded ==
    [][(lastCall'.op = "RegisterPermission" /\ nextBit >= 64)
        => IF lastCall'.name \in DOMAIN nameToPermission
           THEN lastCall'.err = "nil" /\ lastCall'.perm = nameToPermission[lastCall'.name]
           ELSE /\ lastCall'.err = "ErrMaxPermissionsReached"
                /\ MemoryUnchanged
                /\ customPermissions' = customPermissions]_vars

\* C4 has happened: a registration was refused with all 64 bits taken.
C4_Witness ==
    /\ lastCall.op = "RegisterPermission"
    /\ lastCall.err = "ErrMaxPermissionsReached"
    /\ nextBit >= 64
    /\ {63} \in DOMAIN permissionToName

\* C5: a successful RegisterPermission(name) that follows an earlier one with no
\* UnregisterPermission(name) in between returns the same permission and
\* changes neither map, nor the cursor, nor the table.
C5_RegisterIdempotent ==
    [][Registered(lastCall')
        => \A i \in issued :
              i[1] = lastCall'.name
                => /\ lastCall'.perm = i[2]
                   /\ MemoryUnchanged
                   /\ customPermissions' = customPermissions]_vars

\* The fixed bit position of each built-in name.
BuiltinBitPosition(name) ==
    CASE name = "ViewDashboard" -> 0
      [] name = "ViewModels" -> 1
      [] name = "ViewUsers" -> 2
      [] name = "ManageUsers" -> 3
      [] name = "ManageModels" -> 4
      [] name = "Administrator" -> 5

BuiltinsMapped ==
    \A name \in {"ViewDashboard", "ViewModels", "ViewUsers", "ManageUsers",
                 "ManageModels", "Administrator"} :
        /\ name \in DOMAIN nameToPermission
        /\ nameToPermission[name] = {BuiltinBitPosition(name)}
        /\ {BuiltinBitPosition(name)} \in DOMAIN permissionToName
        /\ permissionToName[{BuiltinBitPosition(name)}] = name

\* C6: each built-in name is always mapped to its fixed bit in both maps, and
\* UnregisterPermission of a built-in name returns an error and removes nothing
\* from the maps or the table.
C6_BuiltinsPermanent ==
    /\ []BuiltinsMapped
    /\ [][(lastCall'.op = "UnregisterPermission" /\ lastCall'.name \in BuiltinNames)
           => /\ lastCall'.err # "nil"
              /\ MemoryUnchanged
              /\ customPermissions' = customPermissions]_vars

\* C6 has happened: unregistering Administrator was refused.
C6_Witness ==
    /\ lastCall.op = "UnregisterPermission"
    /\ lastCall.name = "Administrator"
    /\ lastCall.err = "builtin"

\* C7: an UnregisterPermission that returns an error leaves both maps and the
\* cursor as before the call; after a failed durable delete the name is still mapped.
C7_FailedUnregisterChangesNothing ==
    [][(lastCall'.op = "UnregisterPermission" /\ lastCall'.err # "nil")
        => /\ MemoryUnchanged
           /\ lastCall'.err = "db" => lastCall'.name \in DOMAIN nameToPermission']_vars

\* C7 has happened: the durable delete of a mapped custom permission failed.
C7_Witness ==
    /\ lastCall.op = "UnregisterPermission"
    /\ lastCall.err = "db"
    /\ lastCall.name \in CustomNames
    /\ db

\* C8: a HasPermission call whose userPermissions contain the Administrator
\* bit returns true whatever is required: built-in bits, bits registered since,
\* bits no name is registered for.
C8_AdministratorSatisfiesAll ==
    (hasCall.result # "none" /\ 5 \in hasCall.userPermissions)
        => hasCall.result = "true"

\* C8 has happened: a principal holding only Administrator was checked against a
\* custom permission registered at run time together with an unregistered bit.
C8_Witness ==
    /\ hasCall.result = "true"
    /\ hasCall.userPermissions = {5}
    /\ hasCall.requiredPermissions = {6, 63}
    /\ \E i \in issued : i[2] = {6}
    /\ {63} \notin MappedPermissions

\* C9: without the Administrator bit HasPermission returns true exactly when
\* every required bit is held; HasPermission(X, X) is true for every X; and a
\* true result stays true for every superset of the held mask.
C9_SubsetReflexiveMonotone ==
    hasCall.result # "none"
        => /\ 5 \notin hasCall.userPermissions
                => (hasCall.result = "true"
                        <=> hasCall.requiredPermissions \subseteq hasCall.userPermissions)
           /\ hasCall.userPermissions = hasCall.requiredPermissions
                => hasCall.result = "true"
           /\ hasCall.result = "true"
                => \A held \in CheckedMasks :
                      hasCall.userPermissions \subseteq held
                        => HasPermission(held, hasCall.requiredPermissions)

\* C9 has happened: a principal without Administrator was refused for a bit it lacks.
C9_Witness ==
    /\ hasCall.result = "false"
    /\ hasCall.userPermissions = {1}
    /\ hasCall.requiredPermissions = {1, 6}

\* The highest of a non-empty set of bit positions.
MaxOf(positions) ==
    CHOOSE m \in positions : \A q \in positions : q <= m

LiveBitPositions ==
    {r.BitPosition : r \in LiveRows(customPermissions)}

\* C10: a successful load leaves the cursor at the larger of its old value and
\* one past the highest live bit position, with every live row in both maps; a
\* registration of a new name right after it takes the bit at the cursor, which
\* is 8 for rows at 6 and 7 loaded into a registry holding only the built-ins.
C10_LoadAdvancesCursor ==
    [][/\ Loaded(lastCall')
            => /\ nextBit' = IF LiveBitPositions # {} /\ MaxOf(LiveBitPositions) + 1 > nextBit
                             THEN MaxOf(LiveBitPositions) + 1
                             ELSE nextBit
               /\ \A r \in LiveRows(customPermissions) :
                     /\ r.Name \in DOMAIN nameToPermission'
                     /\ nameToPermission'[r.Name] = {r.BitPosition}
                     /\ {r.BitPosition} \in DOMAIN permissionToName'
                     /\ permissionToName'[{r.BitPosition}] = r.Name
       /\ (Loaded(lastCall) /\ Registered(lastCall')
              /\ lastCall'.name \notin DOMAIN nameToPermission)
            => /\ lastCall'.perm = {nextBit}
               /\ (LiveBitPositions = {6, 7} /\ lastAllocBit = -1) => lastCall'.perm = {8}]_vars

\* C10 has happened: rows at 6 and 7 were loaded and the next new name got bit 8.
C10_Witness ==
    /\ Registered(lastCall)
    /\ lastCall.name = "NewCap"
    /\ lastCall.perm = {8}
    /\ lastAllocBit = 8
    /\ issued = {<<"NewCap", {8}>>}
    /\ "ViewPosts" \in DOMAIN nameToPermission /\ nameToPermission["ViewPosts"] = {6}
    /\ "ManageReports" \in DOMAIN nameToPermission /\ nameToPermission["ManageReports"] = {7}

\* C11: in a process that holds only the built-ins the first successful
\* RegisterPermission of a custom name returns bit 6 (mask value 64); a set
\* holding only ViewModels does not satisfy that mask, and does with bit 6 added.
C11_FirstCustomBit ==
    /\ [][(DOMAIN nameToPermission = BuiltinNames /\ lastAllocBit = -1
              /\ Registered(lastCall') /\ lastCall'.name \in CustomNames)
            => lastCall'.perm = {6}]_vars
    /\ [](hasCall.result # "none" /\ hasCall.requiredPermissions = {6}
            => /\ hasCall.userPermissions = {1} => hasCall.result = "false"
               /\ hasCall.userPermissions = {1, 6} => hasCall.result = "true")

\* C11 has happened: ViewPosts got bit 6 and a holder of ViewModels and bit 6 passed.
C11_Witness ==
    /\ <<"ViewPosts", {6}>> \in issued
    /\ lastAllocBit = 6
    /\ hasCall.userPermissions = {1, 6}
    /\ hasCall.requiredPermissions = {6}
    /\ hasCall.result = "true"

\* C12: the two maps are mutual inverses: every name's permission maps back to
\* the name and every permission's name maps back to the permission.
C12_MapsMutualInverses ==
    /\ \A n \in DOMAIN nameToPermission :
          /\ nameToPermission[n] \in DOMAIN permissionToName
          /\ permissionToName[nameToPermission[n]] = n
    /\ \A q \in DOMAIN permissionToName :
          /\ permissionToName[q] \in DOMAIN nameToPermission
          /\ nameToPermission[permissionToName[q]] = q

\* C13: every mapped permission is a single bit at a position in 0..63, and at
\* most 64 distinct permissions are mapped.
C13_SingleBitMasks ==
    /\ \A q \in MappedPermissions : \E bitPos \in 0 .. 63 : q = {bitPos}
    /\ Cardinality(MappedPermissions) <= 64

\* C13 has happened: the top bit of the word is mapped and the cursor is at 64.
C13_Witness ==
    /\ nextBit = 64
    /\ {63} \in DOMAIN permissionToName
    /\ Registered(lastCall) /\ lastCall.perm = {63}

\* C14: once registrations fail for lack of bits, a successful
\* UnregisterPermission of a custom permission lets the next RegisterPermission
\* of a new name through: it does not return ErrMaxPermissionsReached.
C14_CleanupRecoversCapacity ==
    [][(nextBit >= 64
          /\ lastCall.op = "UnregisterPermission" /\ lastCall.err = "nil"
          /\ lastCall.name \in CustomNames
          /\ lastCall'.op = "RegisterPermission"
          /\ lastCall'.name \notin DOMAIN nameToPermission)
        => lastCall'.err # "ErrMaxPermissionsReached"]_vars

\* C15: a successful load that directly follows a successful load (the table is
\* the same) changes neither map nor the cursor.
C15_ReloadChangesNothing ==
    [][(Loaded(lastCall) /\ Loaded(lastCall')) => MemoryUnchanged]_vars

\* C15 has happened: rows were loaded twice in a row.
C15_Witness ==
    /\ reloaded
    /\ Loaded(lastCall)
    /\ LiveRows(customPermissions) # {}
    /\ \A r \in LiveRows(customPermissions) : r.Name \in DOMAIN nameToPermission

\* ------------------------------------------------- claims: schema registry

\* The models declared with the concealment marker: a field named Hidden, or the
\* marker struct embedded directly.
ConcealedModels == {UserToken, PostDraft}

\* The models declared with the restriction marker: a field named adminOnly, or
\* the marker struct embedded directly.
RestrictedModels == {User, PostRow}

\* The models RegisterSchema or RegisterSchemas has been called with.
RegisteredModels == {model \in Models : model.Name \in registered}

VisibleRegistered == RegisteredModels \ ConcealedModels

CanonicalName(model) == getTableName(model)

SingularForm(model) == singularize(getTableName(model))

Resolve(name) == ResolveTableName(registry, aliases, name)

\* C16: after any sequence of registrations, the canonical name of every type
\* registered without the concealment marker resolves to itself, found.
C16_CanonicalNameResolves ==
    \A model \in VisibleRegistered :
        Resolve(CanonicalName(model)) = <<CanonicalName(model), TRUE>>

\* C16 witness: with Post and PostRow registered, ResolveTableName("post") was
\* called - PostRow's canonical name and Post's singular - and returned ("post", true).
C16_Witness ==
    /\ schemaCall.op = "ResolveTableName"
    /\ {Post, PostRow} \subseteq VisibleRegistered
    /\ schemaCall.name = CanonicalName(PostRow)
    /\ schemaCall.name = SingularForm(Post)
    /\ schemaCall.result = <<CanonicalName(PostRow), TRUE>>

\* C17 as stated: the singular form of every registered type, when it differs
\* from the canonical name, resolves to that type's canonical name - whatever
\* canonical names and singular forms the other registered types have.
C17_SingularResolvesToOwner ==
    \A model \in VisibleRegistered :
        SingularForm(model) # CanonicalName(model)
            => Resolve(SingularForm(model)) = <<CanonicalName(model), TRUE>>

\* C17 amended: the singular form of a registered type T resolves to T's
\* canonical name provided no registered type has that singular form as its
\* canonical name and T is the type that recorded the alias last.
C17_SingularResolvesUnlessTaken ==
    \A model \in VisibleRegistered :
        /\ SingularForm(model) # CanonicalName(model)
        /\ SingularForm(model) \notin DOMAIN registry
        /\ lastAliased[SingularForm(model)] = model.Name
        => Resolve(SingularForm(model)) = <<CanonicalName(model), TRUE>>

\* C17 witness: Box and Crate share the singular "box", Crate was registered
\* last, and ResolveTableName("box") returned Crate's table.
C17_Witness ==
    /\ schemaCall.op = "ResolveTableName"
    /\ {Box, Crate} \subseteq VisibleRegistered
    /\ schemaCall.name = SingularForm(Box)
    /\ SingularForm(Crate) = SingularForm(Box)
    /\ lastAliased[schemaCall.name] = Crate.Name
    /\ schemaCall.result = <<CanonicalName(Crate), TRUE>>

\* What a registered concealed model must not show; `limited` leaves out the
\* canonical names that a registered type without the marker shares.
ConcealedInvisible(model, limited) ==
    LET name == CanonicalName(model)
        shared == \E other \in VisibleRegistered : CanonicalName(other) = name
    IN  /\ GetMetadata(registry, name) # <<SchemaMetadata(model), TRUE>>
        /\ (limited /\ shared) \/
              /\ name \notin DOMAIN GetAllRegisteredSchemas(registry)
              /\ GetMetadata(registry, name)[2] = FALSE
              /\ \A form \in LookupNames : Resolve(form) # <<name, TRUE>>

\* A registration of a concealed model leaves the registry and the alias index as they were.
ConcealedRegistrationIsNoOp ==
    /\ schemaCall'.op = "RegisterSchema"
    /\ ModelNamed(schemaCall'.model) \in ConcealedModels
    => UNCHANGED <<registry, aliases>>

\* C18 as stated: once a type carrying the concealment marker has been
\* registered, its canonical name is no key of the listing, its metadata is not
\* returned, and no name resolves to it; and its registration changes nothing.
C18_ConcealedNeverVisible ==
    /\ [](\A model \in RegisteredModels \cap ConcealedModels : ConcealedInvisible(model, FALSE))
    /\ [][ConcealedRegistrationIsNoOp]_vars

\* C18 amended: the registration of a concealed type changes neither the
\* registry nor the alias index and its metadata is never returned; its canonical
\* name is no key of the listing, has no metadata and is resolved to by no name
\* unless a registered type without the marker has the same canonical name.
C18_ConcealedAddsNothing ==
    /\ [](\A model \in RegisteredModels \cap ConcealedModels : ConcealedInvisible(model, TRUE))
    /\ [][ConcealedRegistrationIsNoOp]_vars

\* C18 witness: UserToken was registered, and ResolveTableName of its singular
\* form "user_token" returned not found.
C18_Witness ==
    /\ schemaCall.op = "ResolveTableName"
    /\ UserToken \in RegisteredModels
    /\ schemaCall.name = SingularForm(UserToken)
    /\ schemaCall.result = <<<<>>, FALSE>>

\* IsAdminOnly is false for every name that is not a key of the registry.
UnknownNotRestricted ==
    \A name \in LookupNames \ DOMAIN registry : IsAdminOnly(registry, name) = FALSE

\* C19 as stated: for every registered type without the concealment marker,
\* IsAdminOnly of its canonical name is true exactly if the type carries the
\* restriction marker; for every other name it is false.
C19_RestrictedIffMarked ==
    /\ \A model \in VisibleRegistered :
           IsAdminOnly(registry, CanonicalName(model)) = (model \in RestrictedModels)
    /\ UnknownNotRestricted

\* C19 amended: the same, for the type registered last under its canonical name.
C19_RestrictedIffLastMarked ==
    /\ \A model \in VisibleRegistered :
           lastRegistered[CanonicalName(model)] = model.Name
               => IsAdminOnly(registry, CanonicalName(model)) = (model \in RestrictedModels)
    /\ UnknownNotRestricted

\* C19 witness: User and UserView were both registered for "users", User last,
\* and IsAdminOnly("users") returned true.
C19_Witness ==
    /\ schemaCall.op = "IsAdminOnly"
    /\ {User, UserView} \subseteq VisibleRegistered
    /\ schemaCall.name = CanonicalName(User)
    /\ lastRegistered[schemaCall.name] = User.Name
    /\ schemaCall.result = TRUE

\* The names of the fields of a list, in its order.
NamesOf(fields) ==
    [i \in 1 .. Len(fields) |-> fields[i].Name]

\* The elements of a sequence, and whether none occurs twice.
Range(seq) == {seq[i] : i \in 1 .. Len(seq)}

NoRepeats(seq) == Cardinality(Range(seq)) = Len(seq)

\* The result ValidateBody must return for the entry of a table and a body.
ValidatedAsSpecified(meta, body, result) ==
    LET Absent(field) == field.Required /\ ~field.PrimaryKey /\ field.Name \notin DOMAIN body
    IN  /\ result.missingFields = NamesOf(SelectSeq(meta.Fields, Absent))
        /\ Range(result.unknownFields) = DOMAIN body \ Range(NamesOf(meta.Fields))
        /\ NoRepeats(result.unknownFields)

\* C20: for every registered canonical name and every body, ValidateBody returns
\* as missing exactly the required, non-primary-key fields whose name is no key
\* of the body, in declaration order, and as unknown exactly the keys of the body
\* that are no field names; a key counts as present whatever its value.
C20_ValidateBodyExact ==
    /\ \A name \in DOMAIN registry, body \in Bodies :
           \A result \in ValidateBody(registry, name, body) :
               ValidatedAsSpecified(registry[name], body, result)
    /\ schemaCall.op = "ValidateBody" /\ schemaCall.name \in DOMAIN registry
           => ValidatedAsSpecified(registry[schemaCall.name], schemaCall.body, schemaCall.result)

\* C20 witness: ValidateBody("posts", {Title: null, extra: ..., more: ...})
\* returned both lists non-empty: Type and Body missing in that order, the null
\* Title counted as supplied, extra and more unknown.
C20_Witness ==
    /\ schemaCall.op = "ValidateBody"
    /\ Post \in VisibleRegistered
    /\ schemaCall.name = CanonicalName(Post)
    /\ schemaCall.body = [key \in BodyKeys |-> IF key = <<"T", "i", "t", "l", "e">> THEN "null" ELSE "text"]
    /\ schemaCall.result.missingFields = <<<<"T", "y", "p", "e">>, <<"B", "o", "d", "y">>>>
    /\ schemaCall.result.unknownFields = <<<<"m", "o", "r", "e">>, <<"e", "x", "t", "r", "a">>>>

\* A ValidateBody call leaves the registry and the alias index as they were.
ValidateBodyReadsOnly ==
    schemaCall'.op = "ValidateBody" => UNCHANGED <<registry, aliases>>

\* C21: for every name that is no key of the registry - a singular alias of a
\* registered table included - and every body, ValidateBody returns two empty
\* lists, and the call changes neither the registry nor the alias index.
C21_UnknownTablePasses ==
    /\ [](\A name \in (LookupNames \cup ValidatedNames) \ DOMAIN registry, body \in Bodies :
              ValidateBody(registry, name, body) = {[missingFields |-> <<>>, unknownFields |-> <<>>]})
    /\ [][ValidateBodyReadsOnly]_vars

\* C21 witness: with Post registered, ValidateBody("post", body) - the alias of
\* "posts", with a body of unknown keys only - returned two empty lists.
C21_Witness ==
    /\ schemaCall.op = "ValidateBody"
    /\ Post \in VisibleRegistered
    /\ schemaCall.name = SingularForm(Post)
    /\ schemaCall.name \in DOMAIN aliases
    /\ schemaCall.name \notin DOMAIN registry
    /\ DOMAIN schemaCall.body = {<<"e", "x", "t", "r", "a">>, <<"m", "o", "r", "e">>}
    /\ schemaCall.result = [missingFields |-> <<>>, unknownFields |-> <<>>]

\* C22 as stated: an entry of the registry stays, with the same restricted flag
\* and the same field list, through every later step.
C22_EntriesNeverChange ==
    [][\A name \in DOMAIN registry :
           /\ name \in DOMAIN registry'
           /\ registry'[name].AdminOnly = registry[name].AdminOnly
           /\ registry'[name].Fields = registry[name].Fields]_vars

\* C22 amended: an entry of the registry is never removed, and it changes only
\* when a type other than the one that wrote it is registered under its name.
C22_EntriesChangeOnlyByOtherType ==
    [][\A name \in DOMAIN registry :
           /\ name \in DOMAIN registry'
           /\ registry'[name] # registry[name] =>
                  /\ schemaCall'.op \in {"RegisterSchema", "RegisterSchemas"}
                  /\ lastRegistered'[name] # lastRegistered[name]
                  /\ registry'[name] = SchemaMetadata(ModelNamed(lastRegistered'[name]))]_vars

\* C22 witness: the entry "posts" written for Post is still Post's after the
\* concealed PostDraft, a model of the same table, was registered.
C22_Witness ==
    /\ schemaCall.op = "RegisterSchema"
    /\ schemaCall.model = PostDraft.Name
    /\ Post \in VisibleRegistered
    /\ CanonicalName(PostDraft) = CanonicalName(Post)
    /\ registry[CanonicalName(Post)] = SchemaMetadata(Post)

\* A goroutine waits for mu and mu is not free for it.
Blocked(g) ==
    \/ goroutines[g].at \in {"RLock", "innerRLock"} /\ ~RLockFree
    \/ goroutines[g].at = "Lock" /\ ~LockFree(g)

\* C23: under every interleaving of the registry's operations no reachable
\* state is a deadlock: never is every goroutine that is inside an operation
\* waiting for the lock without the lock being free for it.
C23_NoDeadlock ==
    \/ \A g \in Goroutines : goroutines[g] = Idle
    \/ \E g \in Goroutines : goroutines[g] # Idle /\ ~Blocked(g)

\* C24: under every interleaving of RegisterPermission calls - those whose
\* db.Create fails included - with reads of the maps, a read returns what the
\* maps held when a writer last released the lock, which for a failed
\* registration is what they held before the call: while a reader is inside,
\* the maps hold no tentative entry, neither in one map nor in both.
C24_ReadsSeeNoTentativeEntry ==
    /\ lastRead.op # "none" => lastRead.seen = ReadOf(lastRead.stable, lastRead)
    /\ \A g \in Goroutines :
           callers[g].op \in {read.op : read \in Reads} /\ callers[g].at = "locked"
               => Registry = stable

\* C24 witness: GetPermissionByName("NewCap") ran while a RegisterPermission
\* of that name, whose db.Create failed before, was waiting again for the lock,
\* and found no such name.
C24_Witness ==
    /\ lastRead.op = "GetPermissionByName"
    /\ lastRead.seen = <<{}, FALSE>>
    /\ lastCall = Call("RegisterPermission", lastRead.name, {}, "db")
    /\ \E g \in Goroutines : callers[g].op = "RegisterPermission" /\ callers[g].at = "Lock"

\* C25: a request to get, create or update that is served on a collection
\* whose AdminOnly flag is true comes from a caller whose permissions satisfy
\* HasPermission(held, ManageModels); a caller with ViewModels and neither
\* ManageModels nor Administrator is refused on all three.
C25_RestrictedNeedsManageModels ==
    schemaCall.op \in {"get", "create", "update"} /\ schemaCall.result = "200"
        /\ IsAdminOnly(registry, Resolve(schemaCall.request.collectionName)[1])
        => HasPermission(schemaCall.request.held, ManageModels)

\* The names C26 is checked for in every state.
C26_Names ==
    LookupNames \cup ResolvedNames \cup {<<"g", "a", "s", "e", "s">>, <<"g", "a", "s">>, <<"G", "a", "s">>, <<"G", "A", "S">>}

\* What C26 says of the result of resolving name, p the pluralized form of name.
C26_FirstHit(name, result) ==
    LET p == NamingStrategyTableName(name)
        canonical == DOMAIN registry
        aliased == DOMAIN aliases
    IN  /\ name \in canonical => result = <<name, TRUE>>
        /\ name \notin canonical /\ name \in aliased => result = <<aliases[name], TRUE>>
        /\ name \notin canonical \cup aliased /\ p \in canonical => result = <<p, TRUE>>
        /\ name \notin canonical \cup aliased /\ p \notin canonical /\ p \in aliased
               => result = <<aliases[p], TRUE>>
        /\ ~result[2] <=> {name, p} \cap (canonical \cup aliased) = {}
        /\ ~result[2] => result[1] = <<>>

\* C26: ResolveTableName returns the first hit of four lookups - the name among
\* the canonical names, the name among the alias keys, its pluralized form
\* among the canonical names, that form among the alias keys - and not-found
\* exactly when all four miss; a name that is a canonical name and an alias
\* key resolves to itself.
C26_ResolveFirstHit ==
    /\ \A name \in C26_Names : C26_FirstHit(name, Resolve(name))
    /\ schemaCall.op = "ResolveTableName" => C26_FirstHit(schemaCall.name, schemaCall.result)

\* C26 witness: "Gas" was resolved by the fourth lookup - neither it nor its
\* pluralized form "gas" is a canonical name, "gas" is an alias key - while
\* "post" is a canonical name and an alias key at once.
C26_Witness ==
    /\ schemaCall.op = "ResolveTableName"
    /\ schemaCall.name = <<"G", "a", "s">>
    /\ schemaCall.result = <<<<"g", "a", "s", "e", "s">>, TRUE>>
    /\ NamingStrategyTableName(schemaCall.name) = <<"g", "a", "s">>
    /\ {<<"G", "a", "s">>, <<"g", "a", "s">>} \cap DOMAIN registry = {}
    /\ <<"G", "a", "s">> \notin DOMAIN aliases
    /\ <<"p", "o", "s", "t">> \in DOMAIN registry \cap DOMAIN aliases

\* C27: RegisterSchema of a type without the concealment marker leaves under
\* the type's canonical name exactly its metadata - the name, the restriction
\* flag, the field list - and, when the singular form differs from the
\* canonical name, the alias from the singular form to the canonical name,
\* whatever the two keys held before; every other entry of the registry and of
\* the alias index is as it was.
C27_RegisterWritesItsTwoKeys ==
    [][schemaCall'.op = "RegisterSchema" /\ ModelNamed(schemaCall'.model) \notin ConcealedModels =>
           LET T == ModelNamed(schemaCall'.model)
               canonical == CanonicalName(T)
               singular == SingularForm(T)
           IN  /\ GetMetadata(registry', canonical)
                      = <<[TableName |-> canonical, AdminOnly |-> T \in RestrictedModels,
                           Fields |-> extractFields(T)], TRUE>>
               /\ DOMAIN registry' = DOMAIN registry \cup {canonical}
               /\ \A name \in DOMAIN registry \ {canonical} : registry'[name] = registry[name]
               /\ IF singular # canonical
                  THEN /\ aliases'[singular] = canonical
                       /\ DOMAIN aliases' = DOMAIN aliases \cup {singular}
                       /\ \A name \in DOMAIN aliases \ {singular} : aliases'[name] = aliases[name]
                  ELSE aliases' = aliases]_vars

\* C27 witness: Crate was registered after Box and after PostRow: the alias
\* "box" that Box had recorded now names Crate's table, Box's entry and
\* PostRow's, which has no alias, are still there.
C27_Witness ==
    /\ schemaCall.op = "RegisterSchema"
    /\ schemaCall.model = Crate.Name
    /\ {Box, PostRow} \subseteq VisibleRegistered
    /\ SingularForm(Box) = SingularForm(Crate)
    /\ aliases[SingularForm(Crate)] = CanonicalName(Crate)
    /\ registry[CanonicalName(Box)] = SchemaMetadata(Box)
    /\ SingularForm(PostRow) = CanonicalName(PostRow)

\* C28: a successful UnregisterPermission of a custom permission removes the
\* name from nameToPermission and the name's bit from permissionToName - the
\* entry removed there is the one that named the permission, and no other
\* mapping, of a name or of a bit, changes; with a storage handle the live rows
\* of that name are deleted and no other row changes, without one the table is
\* not touched; nextBit does not decrease. The durable delete comes first:
\* when it fails, the maps and the table are as they were.
C28_UnregisterRemovesOnePair ==
    [][/\ unregisters' # unregisters =>
              LET name == lastCall'.name
                  perm == nameToPermission[name]
              IN  /\ lastCall' = Call("UnregisterPermission", name, {}, "nil")
                  /\ name \in DOMAIN nameToPermission
                  /\ name \notin BuiltinNames
                  /\ nameToPermission' = [n \in DOMAIN nameToPermission \ {name} |-> nameToPermission[n]]
                  /\ permissionToName' = [p \in DOMAIN permissionToName \ {perm} |-> permissionToName[p]]
                  /\ \A p \in DOMAIN permissionToName \ DOMAIN permissionToName' :
                         permissionToName[p] = name
                  /\ IF db
                     THEN /\ ~\E r \in LiveRows(customPermissions') : r.Name = name
                          /\ {r \in customPermissions' : r.Name # name}
                                 = {r \in customPermissions : r.Name # name}
                          /\ {[Name |-> r.Name, BitPosition |-> r.BitPosition] : r \in customPermissions'}
                                 = {[Name |-> r.Name, BitPosition |-> r.BitPosition] : r \in customPermissions}
                     ELSE customPermissions' = customPermissions
                  /\ nextBit' >= nextBit
       /\ lastCall' # lastCall /\ lastCall'.op = "UnregisterPermission" /\ lastCall'.err = "db" =>
              UNCHANGED <<nameToPermission, permissionToName, nextBit, customPermissions>>]_vars

\* C29: in every reachable state no key of aliases equals the table name it
\* maps to: every key is the singular form of its target and differs from it,
\* because RegisterSchema records the alias only in that case.
C29_NoAliasToItself ==
    \A key \in DOMAIN aliases :
        /\ aliases[key] # key
        /\ key = singularize(aliases[key])

\* C29 witness: PostRow, whose table name "post" is its own singular form, was
\* registered and left no alias, while Box left the alias of "boxes".
C29_Witness ==
    /\ schemaCall.op = "RegisterSchema"
    /\ schemaCall.model = PostRow.Name
    /\ registry[CanonicalName(PostRow)] = SchemaMetadata(PostRow)
    /\ SingularForm(PostRow) = CanonicalName(PostRow)
    /\ CanonicalName(PostRow) \notin DOMAIN aliases
    /\ Box \in VisibleRegistered
    /\ SingularForm(Box) \in DOMAIN aliases

RECURSIVE MembersAtAnyDepth(_)
\* The named members a struct type declares, those of the structs it embeds included.
MembersAtAnyDepth(structFields) ==
    IF structFields = <<>> THEN {}
    ELSE LET field == Head(structFields)
         IN  (IF field.Anonymous THEN MembersAtAnyDepth(field.Fields) ELSE {field})
                 \cup MembersAtAnyDepth(Tail(structFields))

\* C30: the list extractFields returns holds no descriptor of a member whose
\* gorm tag is "-" or "-:all", nor of a member whose lower-cased name is
\* "adminonly" or "hidden", at whatever depth of embedding the member is declared.
C30_NoDescriptorOfExcludedMember ==
    schemaCall.op = "extractFields" =>
        \A member \in MembersAtAnyDepth(schemaCall.model.Fields) :
            \/ member.GormTag \in {<<"-">>, <<"-", ":", "a", "l", "l">>}
            \/ ToLower(member.Name) \in {<<"a", "d", "m", "i", "n", "o", "n", "l", "y">>, <<"h", "i", "d", "d", "e", "n">>}
            => \A i \in DOMAIN schemaCall.result : schemaCall.result[i] # FieldMetadata(member)

\* C31: the names in the field list of every registered table are pairwise
\* distinct, also for a type that embeds base structures whose member names
\* coincide with its own.
C31_FieldNamesDistinct ==
    \A tableName \in DOMAIN registry : NoRepeats(NamesOf(registry[tableName].Fields))

\* The rule table C32 gives for singularize, read off the characters of the name.
C32_RuleTable(name) ==
    LET n == Len(name)
        EndsIn(suffix) ==
            /\ n >= Len(suffix)
            /\ \A i \in 1 .. Len(suffix) : name[n - Len(suffix) + i] = suffix[i]
        Without(k) == [i \in 1 .. (n - k) |-> name[i]]
    IN  IF EndsIn(<<"i", "e", "s">>) THEN Append(Without(3), "y")
        ELSE IF \E suffix \in {<<"s", "e", "s">>, <<"x", "e", "s">>, <<"z", "e", "s">>, <<"c", "h", "e", "s">>, <<"s", "h", "e", "s">>} : EndsIn(suffix)
        THEN Without(2)
        ELSE IF EndsIn(<<"s">>) /\ ~EndsIn(<<"s", "s">>) THEN Without(1)
        ELSE name

\* C32: singularize(name) is the rule table applied in its order: "-ies" gives
\* "-y"; else "-ses", "-xes", "-zes", "-ches", "-shes" lose two characters;
\* else a single final "s" is dropped; else the name, the empty one included,
\* is returned as it is.
C32_SingularizeIsRuleTable ==
    schemaCall.op = "singularize" => schemaCall.result = C32_RuleTable(schemaCall.name)

\* C32 witness: singularize("zies") returned "zy" - the name also ends in a
\* single "s", and the first rule won.
C32_Witness ==
    /\ schemaCall.op = "singularize"
    /\ schemaCall.name = <<"z", "i", "e", "s">>
    /\ schemaCall.result = <<"z", "y">>

\* Whether the flattened members of a model include one with the lower-cased name.
C33_HasMarkerMember(model, marker) ==
    \E member \in MembersAtAnyDepth(model.Fields) : ToLower(member.Name) = marker

\* C33: marker detection agrees with field flattening. A registered type whose
\* flattened members include a member named "hidden" has no entry in the
\* registry, and one whose flattened members include a member named
\* "adminonly" (and none named "hidden") has an entry with AdminOnly set - be
\* the marker declared on the type, in a directly embedded marker struct, or in
\* an embedded base structure that carries it.
C33_MarkersFoundAtAnyDepth ==
    \A model \in EmbeddingModels :
        model.Name \in registered =>
            IF C33_HasMarkerMember(model, <<"h", "i", "d", "d", "e", "n">>)
            THEN CanonicalName(model) \notin DOMAIN registry
            ELSE C33_HasMarkerMember(model, <<"a", "d", "m", "i", "n", "o", "n", "l", "y">>)
                     => IsAdminOnly(registry, CanonicalName(model))

\* C34: under every interleaving of LoadCustomPermissions with calls of
\* RegisterPermission and UnregisterPermission, once all calls have returned
\* the custom permissions in the maps are exactly the live rows of the table:
\* a permission unregistered between the load's read of the table and its
\* writing of the maps is not mapped afterwards.
C34_LoadLeavesLiveRowsOnly ==
    (\A g \in Goroutines : callers[g].op = "idle") => CustomInMemory = CustomDurable

\* C35: after InitPermissions has loaded the rows of the table, all at
\* positions from maxBuiltinBit up, no two distinct mapped names have the same
\* permission and every mapped name's permission maps back to the name - also
\* for the names registered in memory before the handle was attached.
C35_NoSharedBitAfterInit ==
    (lastCall.op = "InitPermissions" /\ lastCall.err = "nil"
         /\ \A r \in customPermissions : r.BitPosition >= maxBuiltinBit)
        => /\ \A n, m \in DOMAIN nameToPermission :
                  n # m => nameToPermission[n] # nameToPermission[m]
           /\ \A n \in DOMAIN nameToPermission :
                  /\ nameToPermission[n] \in DOMAIN permissionToName
                  /\ permissionToName[nameToPermission[n]] = n

\* C36: a bit position once allocated to a custom name is never allocated to
\* another name afterwards, across registrations, unregistrations and restarts
\* of the process followed by InitPermissions: when RegisterPermission, called
\* with the handle attached, allocates a bit to a new name, no row of the
\* table, deleted or not, and no permission returned earlier gives that bit to
\* a different name.
C36_BitNeverReallocated ==
    [][(db /\ Registered(lastCall') /\ lastCall'.name \notin DOMAIN nameToPermission)
           => /\ \A r \in customPermissions :
                     Bit(r.BitPosition) = lastCall'.perm => r.Name = lastCall'.name
              /\ \A i \in issued : i[2] = lastCall'.perm => i[1] = lastCall'.name]_vars

\* C37: with the handle attached, a custom name whose row was soft-deleted by a
\* successful UnregisterPermission can be registered again while a bit is left:
\* the db.Create of RegisterPermission(name) at the cursor passes the unique
\* indexes, so the call maps the name in both maps and persists it.
C37_ReRegisterAfterUnregister ==
    \A name \in CustomNames :
        (/\ db
         /\ name \notin DOMAIN nameToPermission
         /\ \E r \in customPermissions : r.Name = name /\ r.Deleted
         /\ ~NextBitExhausted(nextBit))
            => DbCreateAllowed(customPermissions, name, nextBit)

\* C38: every alias leads to a table name that has an entry, so whenever
\* ResolveTableName answers (c, true) GetMetadata(c) finds c; and a /metadata
\* request whose name resolved gets the entry of the resolved name, whatever
\* RegisterSchema calls ran beside its two reads.
C38_AliasTargetsRegistered ==
    /\ \A key \in DOMAIN aliases : aliases[key] \in DOMAIN registry
    /\ \A name \in MetadataNames \cup LookupNames :
           LET resolved == ResolveTableName(registry, aliases, name)
           IN  resolved[2] => GetMetadata(registry, resolved[1])[2]
    /\ \A g \in Goroutines :
           At(g, "metadata", "resolved") => goroutines[g].resolvedName \in DOMAIN registry
    /\ (schemaCall.op = "metadata" /\ schemaCall.status = 200) => schemaCall.result[2]

\* A /metadata request by the singular name was answered with the entry its
\* alias leads to, and a RegisterSchema completed between its two reads.
C38_Witness ==
    /\ schemaCall.op = "metadata"
    /\ schemaCall.status = 200
    /\ schemaCall.name \notin DOMAIN registry
    /\ schemaCall.name \in DOMAIN aliases
    /\ schemaCall.resolvedName = aliases[schemaCall.name]
    /\ schemaCall.result[2]
    /\ schemaCall.entries # DOMAIN registry

====
